---- MODULE Spec2Model ----
(***************************************************************************)
(* Model of the /ai/ask dialogue orchestrator (app/routers/ai.py), the     *)
(* conversation memory (app/services/conversation_memory.py), the tool     *)
(* input validators (app/schemas/tools.py) and the tool executors          *)
(* (app/services/joblab_tools.py).                                         *)
(*                                                                         *)
(* Python values are modelled as follows.                                  *)
(*   None            [none |-> TRUE]                                       *)
(*   bool b          [b |-> b]                                             *)
(*   int n           [n |-> n]                                             *)
(*   str             [s |-> <<c1, ..., cn>>]  a sequence of one-character  *)
(*                   strings, so that strip/lower/rstrip/substring/regex   *)
(*                   are computed on the characters                        *)
(*   dict            a function whose DOMAIN is the set of keys present    *)
(*   list            a sequence                                            *)
(* Texts that the program only concatenates or passes on (answers, error   *)
(* messages) are sequences of chunks, each chunk a TLA+ string.            *)
(***************************************************************************)
EXTENDS Integers, Sequences, FiniteSets, TLC

None == [none |-> TRUE]
Bool(b) == [b |-> b]
Num(n) == [n |-> n]
Str(s) == [s |-> s]

EmptyDict == << >>
\* dict.get(k): the value, or None when the key is absent
Get(d, k) == IF k \in DOMAIN d THEN d[k] ELSE None
\* d[k] = v on a copy
Put(d, k, v) == [x \in (DOMAIN d) \cup {k} |-> IF x = k THEN v ELSE d[x]]
\* d.pop(k, None) on a copy
Pop(d, k) == [x \in (DOMAIN d) \ {k} |-> d[x]]

Range(f) == {f[i] : i \in DOMAIN f}

(***************************************************************************)
(* str methods, on sequences of characters                                 *)
(***************************************************************************)
WHITESPACE == {" ", "\n", "\t"}

UPPER == <<"A","B","C","D","E","F","G","H","I","J","K","L","M",
           "N","O","P","Q","R","S","T","U","V","W","X","Y","Z">>
LOWER == <<"a","b","c","d","e","f","g","h","i","j","k","l","m",
           "n","o","p","q","r","s","t","u","v","w","x","y","z">>

LowerChar(c) ==
    IF \E i \in 1..26 : UPPER[i] = c
    THEN LOWER[CHOOSE i \in 1..26 : UPPER[i] = c]
    ELSE c

\* str.lower()
Lower(s) == [i \in 1..Len(s) |-> LowerChar(s[i])]

\* str.rstrip(chars): drop the longest suffix made of characters of chars
RStripChars(s, chars) ==
    LET keep == {n \in 0..Len(s) : \A i \in (n+1)..Len(s) : s[i] \in chars}
        n == CHOOSE m \in keep : \A k \in keep : m <= k
    IN SubSeq(s, 1, n)

\* str.lstrip(): drop the longest prefix made of whitespace
LStrip(s) ==
    LET keep == {n \in 1..(Len(s)+1) : \A i \in 1..(n-1) : s[i] \in WHITESPACE}
        n == CHOOSE m \in keep : \A k \in keep : m >= k
    IN SubSeq(s, n, Len(s))

\* str.strip()
Strip(s) == RStripChars(LStrip(s), WHITESPACE)

\* sub in s
Contains(s, sub) ==
    \E i \in 0..(Len(s) - Len(sub)) : \A j \in 1..Len(sub) : s[i + j] = sub[j]

\* len(s.split()): the number of maximal runs of non-whitespace characters
WordCount(s) ==
    Cardinality({i \in 1..Len(s) :
                    /\ s[i] \notin WHITESPACE
                    /\ (i = 1 \/ s[i-1] \in WHITESPACE)})

(***************************************************************************)
(* The phrase tables of the orchestrator                                   *)
(***************************************************************************)
\* variants of the two budgets, one off
MAX_TOOL_ROUNDS_OneMore == 5 + 1
MAX_SOFT_ENFORCEMENT_RETRIES_OneLess == 2 - 1

MAX_TOOL_ROUNDS == 5
MAX_SOFT_ENFORCEMENT_RETRIES == 2

DB_RELATED_KEYWORDS ==
    << <<"j","o","b">>,
       <<"j","o","b","s">>,
       <<"h","o","w"," ","m","a","n","y">>,
       <<"c","o","u","n","t">>,
       <<"l","i","s","t">>,
       <<"s","h","o","w">>,
       <<"f","i","n","d">>,
       <<"t","r","e","n","d">>,
       <<"i","n","c","r","e","a","s","e">>,
       <<"d","e","c","r","e","a","s","e">>,
       <<"g","r","o","w","t","h">>,
       <<"d","e","c","l","i","n","e">>,
       <<"m","o","n","t","h","-","o","v","e","r","-","m","o","n","t","h">>,
       <<"c","o","m","p","a","r","i","s","o","n">>,
       <<"c","o","m","p","a","r","e">>,
       <<"c","h","a","n","g","e">>,
       <<"h","i","r","i","n","g">>,
       <<"p","o","s","t","e","d">>,
       <<"r","e","s","e","a","r","c","h">>,
       <<"r","e","m","o","t","e">>,
       <<"i","n","d","u","s","t","r","y">>,
       <<"f","u","l","l","-","t","i","m","e">>,
       <<"p","a","r","t","-","t","i","m","e">>,
       <<"c","o","n","t","r","a","c","t">>,
       <<"i","n","t","e","r","n","s","h","i","p">>,
       <<"r","e","l","a","t","e","d"," ","t","o">>,
       <<"a","b","o","u","t">>,
       <<"s","i","m","i","l","a","r"," ","t","o">>,
       <<"p","o","s","i","t","i","o","n","s"," ","m","e","n","t","i","o","n","i","n","g">>,
       <<"j","o","b","s"," ","i","n","v","o","l","v","i","n","g">>,
       <<"s","k","i","l","l","s"," ","l","i","k","e">>,
       <<"r","o","l","e","s"," ","t","h","a","t"," ","d","e","a","l"," ","w","i","t","h">> >>

_AFFIRMATIVE_PATTERNS ==
    << <<"y","e","s">>,
       <<"y","e","a","h">>,
       <<"y","e","p">>,
       <<"y","u","p">>,
       <<"s","u","r","e">>,
       <<"p","l","e","a","s","e">>,
       <<"o","k">>,
       <<"o","k","a","y">>,
       <<"g","o"," ","a","h","e","a","d">>,
       <<"d","o"," ","i","t">>,
       <<"s","h","o","w"," ","m","e">>,
       <<"t","e","l","l"," ","m","e">>,
       <<"a","b","s","o","l","u","t","e","l","y">>,
       <<"o","f"," ","c","o","u","r","s","e">>,
       <<"w","h","y"," ","n","o","t">>,
       <<"r","i","g","h","t">>,
       <<"c","o","r","r","e","c","t">>,
       <<"e","x","a","c","t","l","y">>,
       <<"m","o","r","e">>,
       <<"d","e","t","a","i","l","s">>,
       <<"e","l","a","b","o","r","a","t","e">>,
       <<"e","x","p","l","a","i","n">>,
       <<"b","r","e","a","k"," ","i","t"," ","d","o","w","n">>,
       <<"b","r","e","a","k","d","o","w","n">>,
       <<"c","o","n","t","i","n","u","e">>,
       <<"g","o"," ","o","n">>,
       <<"p","l","e","a","s","e"," ","d","o">> >>

_NEGATIVE_PATTERNS ==
    << <<"n","o">>,
       <<"n","a","h">>,
       <<"n","o","p","e">>,
       <<"n","o"," ","t","h","a","n","k","s">>,
       <<"n","o"," ","t","h","a","n","k"," ","y","o","u">>,
       <<"n","o","t"," ","n","o","w">>,
       <<"n","o","t"," ","r","e","a","l","l","y">>,
       <<"n","e","v","e","r"," ","m","i","n","d">>,
       <<"n","e","v","e","r","m","i","n","d">>,
       <<"s","k","i","p">>,
       <<"p","a","s","s">>,
       <<"i","'","m"," ","g","o","o","d">>,
       <<"i","m"," ","g","o","o","d">>,
       <<"t","h","a","t","'","s"," ","a","l","l">>,
       <<"t","h","a","t","s"," ","a","l","l">>,
       <<"a","l","l"," ","g","o","o","d">>,
       <<"n","o","t","h","i","n","g"," ","e","l","s","e">> >>

_NEGATED_RESEARCH_PATTERNS ==
    << <<"n","o","n"," ","r","e","s","e","a","r","c","h">>,
       <<"n","o","n","-","r","e","s","e","a","r","c","h">>,
       <<"n","o","t"," ","r","e","s","e","a","r","c","h">>,
       <<"e","x","c","l","u","d","e"," ","r","e","s","e","a","r","c","h">>,
       <<"e","x","c","l","u","d","i","n","g"," ","r","e","s","e","a","r","c","h">>,
       <<"w","i","t","h","o","u","t"," ","r","e","s","e","a","r","c","h">> >>

RESEARCH == <<"r","e","s","e","a","r","c","h">>
FOLLOWUP_PUNCTUATION == {"!", ".", ",", "?"}

\* any(keyword in prompt.lower() for keyword in DB_RELATED_KEYWORDS)
_is_database_related(prompt) ==
    \E i \in DOMAIN DB_RELATED_KEYWORDS :
        Contains(Lower(prompt), DB_RELATED_KEYWORDS[i])

\* prompt.strip().lower().rstrip("!.,?")
NormalizeFollowup(prompt) ==
    RStripChars(Lower(Strip(prompt)), FOLLOWUP_PUNCTUATION)

_is_affirmative_followup(prompt) ==
    NormalizeFollowup(prompt) \in Range(_AFFIRMATIVE_PATTERNS)

\* a variant that leaves out strip(): prompt.lower().rstrip("!.,?")
_is_negative_followup_NoStrip(prompt) ==
    RStripChars(Lower(prompt), FOLLOWUP_PUNCTUATION) \in Range(_NEGATIVE_PATTERNS)

_is_negative_followup(prompt) ==
    NormalizeFollowup(prompt) \in Range(_NEGATIVE_PATTERNS)

\* True / False / None
_infer_research_filter(prompt) ==
    IF \E i \in DOMAIN _NEGATED_RESEARCH_PATTERNS :
          Contains(Lower(prompt), _NEGATED_RESEARCH_PATTERNS[i])
    THEN Bool(FALSE)
    ELSE IF Contains(Lower(prompt), RESEARCH) THEN Bool(TRUE) ELSE None

\* the prompts clients send
P_NO == <<" "," ","N","o","!">>
P_YES == <<"Y","e","s",".">>
P_COUNT == <<"h","o","w"," ","m","a","n","y"," ","n","o","n","-","r","e","s","e","a","r","c","h"," ","j","o","b","s">>
P_HELLO == <<"h","e","l","l","o">>
P_LONG == <<"a"," ","b"," ","c"," ","d"," ","e"," ","f"," ","g">>
Prompts == {P_NO, P_YES, P_COUNT, P_HELLO, P_LONG}

\* _infer_research_filter, computed once for each prompt of Prompts
ResearchFilterTable == [p \in Prompts |-> _infer_research_filter(p)]
InferredResearchFilter(prompt) ==
    IF prompt \in Prompts THEN ResearchFilterTable[prompt]
    ELSE _infer_research_filter(prompt)

\* a variant that writes the inferred filter whatever the model set
_enforce_prompt_filters_Overwrite(tool_name, tool_input, prompt) ==
    IF tool_name \notin {Str("search_jobs"), Str("job_stats")}
    THEN tool_input
    ELSE IF InferredResearchFilter(prompt) # None
         THEN Put(tool_input, "is_research", InferredResearchFilter(prompt))
         ELSE tool_input

\* dict(tool_input), with is_research injected when the model left it unset
_enforce_prompt_filters(tool_name, tool_input, prompt) ==
    IF tool_name \notin {Str("search_jobs"), Str("job_stats")}
    THEN tool_input
    ELSE IF /\ InferredResearchFilter(prompt) # None
            /\ Get(tool_input, "is_research") = None
         THEN Put(tool_input, "is_research", InferredResearchFilter(prompt))
         ELSE tool_input

(***************************************************************************)
(* Tool input validation (app/schemas/tools.py).  Inputs are well typed:   *)
(* what is modelled is the whitelist, format and range checks.             *)
(***************************************************************************)
ALLOWED_GROUP_BY ==
    {"country", "company_name", "job_level_std", "job_function_std",
     "company_industry_std", "job_type_filled", "platform", "posted_month"}
ALLOWED_METRICS == {"count"}
DEFAULT_LIMIT == 20
HARD_MAX_LIMIT == 100
DEFAULT_TOP_K == 5
HARD_MAX_TOP_K == 20
QUERY_TEXT_MAX_LENGTH == 2000

DIGITS == {"0", "1", "2", "3", "4", "5", "6", "7", "8", "9"}

\* _DATE_RE.match(s) for ^\d{4}-\d{2}-\d{2}$ : in Python, $ also matches just
\* before a line feed that ends the string
_DATE_RE(s) ==
    /\ Len(s) \in {10, 11}
    /\ Len(s) = 11 => s[11] = "\n"
    /\ \A i \in {1, 2, 3, 4, 6, 7, 9, 10} : s[i] \in DIGITS
    /\ s[5] = "-"
    /\ s[8] = "-"

\* TRUE when the value passes, FALSE when ValueError is raised
_check_iso_date(v) == v = None \/ _DATE_RE(v.s)

Min(a, b) == IF a <= b THEN a ELSE b

\* the mode="before" validator of limit
_clamp_limit(v) == IF v = None THEN DEFAULT_LIMIT ELSE Min(v.n, HARD_MAX_LIMIT)

\* the validated limit: the default when the key is absent, else the clamped
\* value, which Field(ge=1, le=HARD_MAX_LIMIT) then checks
SearchJobsLimit(raw_input) ==
    IF "limit" \in DOMAIN raw_input THEN _clamp_limit(raw_input["limit"])
    ELSE DEFAULT_LIMIT

\* SearchJobsInput(**raw_input) does not raise
SearchJobsInput(raw_input) ==
    /\ _check_iso_date(Get(raw_input, "posted_start"))
    /\ _check_iso_date(Get(raw_input, "posted_end"))
    /\ SearchJobsLimit(raw_input) >= 1
    /\ SearchJobsLimit(raw_input) <= HARD_MAX_LIMIT

\* JobStatsInput(**raw_input) does not raise: metric and group_by are required
JobStatsInput(raw_input) ==
    /\ "metric" \in DOMAIN raw_input
    /\ raw_input["metric"] # None
    /\ raw_input["metric"].s \in ALLOWED_METRICS
    /\ "group_by" \in DOMAIN raw_input
    /\ raw_input["group_by"] # None
    /\ raw_input["group_by"].s \in ALLOWED_GROUP_BY
    /\ _check_iso_date(Get(raw_input, "posted_start"))
    /\ _check_iso_date(Get(raw_input, "posted_end"))

_clamp_top_k(v) == IF v = None THEN DEFAULT_TOP_K ELSE Min(v.n, HARD_MAX_TOP_K)

SemanticTopK(raw_input) ==
    IF "top_k" \in DOMAIN raw_input THEN _clamp_top_k(raw_input["top_k"])
    ELSE DEFAULT_TOP_K

\* SemanticSearchInput(**raw_input) does not raise
SemanticSearchInput(raw_input) ==
    /\ "query_text" \in DOMAIN raw_input
    /\ raw_input["query_text"] # None
    /\ Len(raw_input["query_text"].s) >= 1
    /\ Len(raw_input["query_text"].s) <= QUERY_TEXT_MAX_LENGTH
    /\ SemanticTopK(raw_input) >= 1
    /\ SemanticTopK(raw_input) <= HARD_MAX_TOP_K

(***************************************************************************)
(* Tool executors (app/services/joblab_tools.py).  A data-store request is *)
(* the record of its query string; the upstream answers "ok" or fails.     *)
(***************************************************************************)
\* a str filter is applied when it is truthy and not blank
StrFilterApplies(v) == v # None /\ Len(v.s) > 0 /\ Len(Strip(v.s)) > 0

\* the keys _apply_common_filters adds to qs, with the value each carries
_apply_common_filters(qs, p) ==
    LET q0 == Put(qs, "has_url_duplicate", Str("eq.0"))
        q1 == IF StrFilterApplies(Get(p, "country"))
              THEN Put(q0, "country", [op |-> "ilike", v |-> Strip(p["country"].s)])
              ELSE q0
        q2 == IF Get(p, "is_remote") # None
              THEN Put(q1, "is_remote", [op |-> "eq", v |-> p["is_remote"].b])
              ELSE q1
        q3 == IF Get(p, "is_research") # None
              THEN Put(q2, "is_research", [op |-> "eq", v |-> p["is_research"].b])
              ELSE q2
        q4 == IF StrFilterApplies(Get(p, "job_type_filled"))
              THEN Put(q3, "job_type_filled",
                       [op |-> "ilike", v |-> Strip(p["job_type_filled"].s)])
              ELSE q3
        hasStart == Get(p, "posted_start") # None /\ Len(p["posted_start"].s) > 0
        hasEnd == Get(p, "posted_end") # None /\ Len(p["posted_end"].s) > 0
    IN IF hasStart /\ hasEnd
       THEN Put(q4, "and", [op |-> "range", gte |-> p["posted_start"].s,
                            lte |-> p["posted_end"].s])
       ELSE IF hasStart
            THEN Put(q4, "posted_date", [op |-> "gte", v |-> p["posted_start"].s])
            ELSE IF hasEnd
                 THEN Put(q4, "posted_date", [op |-> "lte", v |-> p["posted_end"].s])
                 ELSE q4

\* the query string of execute_search_jobs for a validated input
SearchJobsQuery(raw_input) ==
    LET q0 == [select |-> Str("SAFE_COLUMNS"),
               order |-> Str("posted_date.desc.nullslast"),
               limit |-> Num(SearchJobsLimit(raw_input))]
        opt(q, k, col) ==
            IF Get(raw_input, k) # None /\ Len(raw_input[k].s) > 0
            THEN Put(q, col, [op |-> (IF k = "job_id" THEN "eq" ELSE "ilike"),
                              v |-> raw_input[k].s])
            ELSE q
        q1 == opt(q0, "job_id", "job_id")
        q2 == opt(q1, "role_keyword", "actual_role")
        q3 == opt(q2, "job_level_std", "job_level_std")
        q4 == opt(q3, "job_function_std", "job_function_std")
        q5 == opt(q4, "company_industry_std", "company_industry_std")
        q6 == opt(q5, "platform", "platform")
    IN _apply_common_filters(q6, raw_input)

\* the query string of execute_job_stats for a validated input (first page)
JobStatsQuery(raw_input) ==
    LET col == IF raw_input["group_by"].s = "posted_month" THEN "posted_date"
               ELSE raw_input["group_by"].s
        q == _apply_common_filters([select |-> Str(col)], raw_input)
    IN Put(Put(q, "limit", Num(1000)), "offset", Num(0))

VALIDATION_ERROR == <<"ValidationError">>
UPSTREAM_ERROR == <<"HTTPError">>

\* The outcome of one executor call: whether it raised, the exception text,
\* the result, and the data-store requests it issued.  upstream is "ok" or
\* "error" (raise_for_status raises on the first request).
Outcome(raised, exc, requests) ==
    [raised |-> raised, exc |-> exc, result |-> IF raised THEN None ELSE Str("rows"),
     requests |-> requests]

execute_search_jobs(raw_input, upstream) ==
    IF ~SearchJobsInput(raw_input) THEN Outcome(TRUE, VALIDATION_ERROR, << >>)
    ELSE IF upstream = "error"
         THEN Outcome(TRUE, UPSTREAM_ERROR, <<SearchJobsQuery(raw_input)>>)
         ELSE Outcome(FALSE, << >>, <<SearchJobsQuery(raw_input)>>)

execute_job_stats(raw_input, upstream) ==
    IF ~JobStatsInput(raw_input) THEN Outcome(TRUE, VALIDATION_ERROR, << >>)
    ELSE IF upstream = "error"
         THEN Outcome(TRUE, UPSTREAM_ERROR, <<JobStatsQuery(raw_input)>>)
         ELSE Outcome(FALSE, << >>, <<JobStatsQuery(raw_input)>>)

\* embed_text is an upstream call of its own and fails with the upstream
execute_semantic_search(raw_input, upstream) ==
    IF ~SemanticSearchInput(raw_input) THEN Outcome(TRUE, VALIDATION_ERROR, << >>)
    ELSE IF upstream = "error"
         THEN Outcome(TRUE, UPSTREAM_ERROR, << >>)
         ELSE Outcome(FALSE, << >>,
                      <<[rpc |-> Str("match_job_chunks"),
                         match_count |-> Num(Min(SemanticTopK(raw_input) * 3, 60))]>>)

\* the names registered in TOOL_EXECUTORS
TOOL_EXECUTORS == {Str("search_jobs"), Str("job_stats"), Str("semantic_search_jobs")}

\* the validator of the executor registered under name accepts raw_input
Validates(name, raw_input) ==
    IF name = Str("search_jobs") THEN SearchJobsInput(raw_input)
    ELSE IF name = Str("job_stats") THEN JobStatsInput(raw_input)
    ELSE SemanticSearchInput(raw_input)

\* TOOL_EXECUTORS[name](raw_input)
RunExecutor(name, raw_input, upstream) ==
    IF name = Str("search_jobs") THEN execute_search_jobs(raw_input, upstream)
    ELSE IF name = Str("job_stats") THEN execute_job_stats(raw_input, upstream)
    ELSE execute_semantic_search(raw_input, upstream)

(***************************************************************************)
(* Conversation memory (app/services/conversation_memory.py): operations   *)
(* on the value M of _MEMORY, a dict of dicts keyed by conversation id.    *)
(***************************************************************************)
\* _MEMORY.get(conversation_id, {})
MemoryOf(M, conversation_id) ==
    IF conversation_id \in DOMAIN M THEN M[conversation_id] ELSE EmptyDict

set_last_tool(M, conversation_id, tool_name, tool_args) ==
    Put(M, conversation_id,
        Put(Put(MemoryOf(M, conversation_id), "last_tool_name", tool_name),
            "last_tool_args", tool_args))

\* <<last_tool_name, last_tool_args>>
get_last_tool(M, conversation_id) ==
    << Get(MemoryOf(M, conversation_id), "last_tool_name"),
       Get(MemoryOf(M, conversation_id), "last_tool_args") >>

\* a variant that keeps a pending follow-up that is already there
set_pending_followup_KeepFirst(M, conversation_id, followup) ==
    IF "pending_followup" \in DOMAIN MemoryOf(M, conversation_id)
    THEN M
    ELSE Put(M, conversation_id,
             Put(MemoryOf(M, conversation_id), "pending_followup", followup))

set_pending_followup(M, conversation_id, followup) ==
    Put(M, conversation_id,
        Put(MemoryOf(M, conversation_id), "pending_followup", followup))

get_pending_followup(M, conversation_id) ==
    Get(MemoryOf(M, conversation_id), "pending_followup")

\* a variant that drops the pending follow-up of every conversation
clear_pending_followup_Everywhere(M, conversation_id) ==
    [c \in DOMAIN M |-> Pop(M[c], "pending_followup")]

clear_pending_followup(M, conversation_id) ==
    IF conversation_id \in DOMAIN M
    THEN Put(M, conversation_id, Pop(M[conversation_id], "pending_followup"))
    ELSE M

(***************************************************************************)
(* Completion-service replies (app/services/bedrock.py)                    *)
(***************************************************************************)
TextBlock(text) == [type |-> "text", text |-> text]
ToolUseBlock(id, name, input) ==
    [type |-> "tool_use", id |-> id, name |-> name, input |-> input]

RECURSIVE JoinText(_)
JoinText(blocks) ==
    IF blocks = << >> THEN << >>
    ELSE (IF Head(blocks).type = "text" THEN Head(blocks).text ELSE << >>)
         \o JoinText(Tail(blocks))

\* "".join(block["text"] for block in content if block["type"] == "text")
extract_text(response_body) == JoinText(response_body.content)

IsToolUse(block) == block.type = "tool_use"
extract_tool_calls(response_body) == SelectSeq(response_body.content, IsToolUse)

has_tool_use(response_body) == response_body.stop_reason = "tool_use"

(***************************************************************************)
(* Follow-up expansion (app/routers/ai.py)                                 *)
(***************************************************************************)
FOLLOWUP_FILTER_KEYS ==
    {"country", "is_remote", "is_research", "job_type_filled",
     "posted_start", "posted_end"}

\* the keys of FOLLOWUP_FILTER_KEYS that tool_args holds with a value
CopiedFilters(tool_args) ==
    [k \in {x \in FOLLOWUP_FILTER_KEYS : x \in DOMAIN tool_args /\ tool_args[x] # None}
        |-> tool_args[k]]

FOLLOWUP_LIMIT == 20

\* a variant with the fallback only: the previous tool is run again
_build_followup_args_Rerun(tool_name, tool_args) == << tool_name, tool_args >>

\* <<exec_tool_name, exec_tool_args>>
_build_followup_args(tool_name, tool_args) ==
    IF tool_name = Str("job_stats")
    THEN << Str("search_jobs"),
            Put(CopiedFilters(tool_args), "limit", Num(FOLLOWUP_LIMIT)) >>
    ELSE IF tool_name = Str("search_jobs")
         THEN << Str("job_stats"),
                 Put(Put(CopiedFilters(tool_args), "metric", Str("count")),
                     "group_by", Str("job_function_std")) >>
         ELSE << tool_name, tool_args >>

PendingFollowup(tool_name, tool_args) ==
    [type |-> Str("expand_previous_query"), tool_name |-> tool_name,
     tool_args |-> tool_args]

\* Python truthiness of a dict-or-None
Truthy(d) == d # None /\ DOMAIN d # {}

DECLINE_ANSWER == <<"Alright. Let me know if you'd like additional insights.">>
REFUSAL_ANSWER ==
    <<"I could not complete this database request because no tool call was produced.">>
UNABLE_ANSWER == <<"I was unable to complete the request within the allowed steps.">>
NUDGE == <<"This question requires database access. You must call an appropriate tool.">>

List(l) == [l |-> l]
\* collected_tool_calls or None
OrNone(l) == IF l = << >> THEN None ELSE List(l)

AskResponse(answer, tool_calls) ==
    [status |-> 200, answer |-> answer, tool_calls |-> tool_calls]
HTTPException(detail) == [status |-> 500, answer |-> detail, tool_calls |-> None]

(***************************************************************************)
(* The environment: the requests clients send and the replies the          *)
(* completion service gives.                                               *)
(***************************************************************************)
\* requests served in one behaviour
MaxRequests == 2
\* tool rounds of a request in which the completion service chooses its reply
\* freely among ToolReplies and the upstream may fail; in later tool rounds the
\* service repeats its previous reply and the upstream answers
MaxFreeToolRounds == 1
\* upstream failures met by the executors while one request is served
MaxUpstreamErrors == 1

ConvKeys == {"A"}

C_DE == <<"G","e","r","m","a","n","y">>
D_OK == <<"2","0","2","6","-","0","1","-","0","1">>
Q_NLP == <<"n","l","p">>

STATS_ARGS ==
    [metric |-> Str("count"), group_by |-> Str("country"), country |-> Str(C_DE),
     is_research |-> None, posted_start |-> Str(D_OK)]
STATS_BAD_ARGS == [metric |-> Str("sum"), group_by |-> Str("country")]
SEARCH_ARGS == [is_research |-> Bool(TRUE), limit |-> Num(500)]
SEMANTIC_ARGS == [query_text |-> Str(Q_NLP)]

NoId == <<0, 0>>
UNKNOWN_TOOL == Str("delete_jobs")

\* the content of the replies that carry tool invocations
ToolReplies ==
    { << TextBlock(<<"Let me check.">>),
         ToolUseBlock(NoId, Str("job_stats"), STATS_ARGS) >>,
      << ToolUseBlock(NoId, UNKNOWN_TOOL, EmptyDict),
         ToolUseBlock(NoId, Str("job_stats"), STATS_BAD_ARGS),
         ToolUseBlock(NoId, Str("semantic_search_jobs"), SEMANTIC_ARGS) >>,
      << ToolUseBlock(NoId, Str("search_jobs"), SEARCH_ARGS),
         ToolUseBlock(NoId, UNKNOWN_TOOL, EmptyDict) >> }

\* the content of the replies without a tool invocation
TextReplies == { << TextBlock(<<"Here is the answer.">>) >> }

\* the service gives each invocation of a reply an id of its own
WithIds(content, r) ==
    [i \in DOMAIN content |->
        IF content[i].type = "tool_use"
        THEN [content[i] EXCEPT !.id = <<r, i>>]
        ELSE content[i]]

ToolUseReply(content, r) == [stop_reason |-> "tool_use", content |-> WithIds(content, r)]
TextReply(content) == [stop_reason |-> "end_turn", content |-> content]
NoReply == [stop_reason |-> "none", content |-> << >>]

Upstream == {"ok", "error"}

(***************************************************************************)
(* State                                                                   *)
(***************************************************************************)
VARIABLES
    _MEMORY,                \* conversation_memory._MEMORY
    pc,                     \* where the request being served stands
    nreq,                   \* requests received so far
    conversation_id,        \* body.conversation_id
    prompt,                 \* body.prompt
    pending,                \* ask: pending
    exec_tool_name,         \* ask: exec_tool_name
    exec_tool_args,         \* ask: exec_tool_args
    messages,               \* ask: messages
    db_related_prompt,      \* ask: db_related_prompt
    no_tool_retry_count,    \* ask: no_tool_retry_count
    has_called_tool,        \* ask: has_called_tool
    collected_tool_calls,   \* ask: collected_tool_calls
    round,                  \* ask: _round, the rounds started so far
    raw,                    \* ask: raw, the last reply
    response,               \* what the request returned
    trace,                  \* the calls made while serving the request, in order
    memory_at_start,        \* _MEMORY when the request was received
    call                    \* one executor call on its own: name, input, outcome

locals ==
    << pending, exec_tool_name, exec_tool_args, messages, db_related_prompt,
       no_tool_retry_count, has_called_tool, collected_tool_calls, round, raw >>
request == << nreq, conversation_id, prompt, memory_at_start >>
vars == << _MEMORY, pc, request, locals, response, trace, call >>

Init ==
    /\ _MEMORY = EmptyDict
    /\ pc = "idle"
    /\ nreq = 0
    /\ conversation_id = "A"
    /\ prompt = << >>
    /\ pending = None
    /\ exec_tool_name = None
    /\ exec_tool_args = None
    /\ messages = << >>
    /\ db_related_prompt = FALSE
    /\ no_tool_retry_count = 0
    /\ has_called_tool = FALSE
    /\ collected_tool_calls = << >>
    /\ round = 0
    /\ raw = NoReply
    /\ response = None
    /\ trace = << >>
    /\ memory_at_start = EmptyDict
    /\ call = None

(***************************************************************************)
(* Trace events                                                            *)
(***************************************************************************)
EvInvoke(tools, nmsgs, raised) ==
    [ev |-> "invoke_claude", tools |-> tools, nmsgs |-> nmsgs, raised |-> raised]
EvExecute(name, input, out) ==
    [ev |-> "execute", name |-> name, input |-> input, raised |-> out.raised,
     exc |-> out.exc, requests |-> out.requests]

\* bookkeeping for the bounds of the environment
UpstreamErrorCount(tr) ==
    Cardinality({i \in DOMAIN tr : tr[i].ev = "execute" /\ tr[i].exc = UPSTREAM_ERROR})
ToolRoundCount(msgs) ==
    Cardinality({i \in DOMAIN msgs : msgs[i].kind = "tool_results"})
EvSetLastTool(name, args) == [ev |-> "set_last_tool", name |-> name, args |-> args]
EvSetPending(followup) == [ev |-> "set_pending_followup", followup |-> followup]
EvClearPending == [ev |-> "clear_pending_followup"]

(***************************************************************************)
(* ask(): the request handler                                              *)
(***************************************************************************)
\* lines 388-394: a request arrives and the pending follow-up is read
Receive(cid, p) ==
    /\ UNCHANGED call
    /\ pc \in {"idle", "done"}
    /\ nreq < MaxRequests
    /\ nreq' = nreq + 1
    /\ conversation_id' = cid
    /\ prompt' = p
    /\ memory_at_start' = _MEMORY
    /\ pending' = get_pending_followup(_MEMORY, cid)
    /\ exec_tool_name' = None
    /\ exec_tool_args' = None
    /\ messages' = << >>
    /\ db_related_prompt' = FALSE
    /\ no_tool_retry_count' = 0
    /\ has_called_tool' = FALSE
    /\ collected_tool_calls' = << >>
    /\ round' = 0
    /\ raw' = NoReply
    /\ response' = None
    /\ trace' = << >>
    /\ pc' = "resolve"
    /\ UNCHANGED _MEMORY

\* lines 396-404: the user declines the pending follow-up
Decline ==
    /\ UNCHANGED call
    /\ pc = "resolve"
    /\ Truthy(pending)
    /\ _is_negative_followup(prompt)
    /\ _MEMORY' = clear_pending_followup(_MEMORY, conversation_id)
    /\ trace' = Append(trace, EvClearPending)
    /\ response' = AskResponse(DECLINE_ANSWER, None)
    /\ pc' = "done"
    /\ UNCHANGED << request, locals >>

\* a variant that stores the expanded call as last tool before executing it
FollowupExecute_StoreFirst(upstream) ==
    /\ UNCHANGED call
    /\ pc = "resolve"
    /\ Truthy(pending)
    /\ ~_is_negative_followup(prompt)
    /\ _is_affirmative_followup(prompt)
    /\ LET cleared == clear_pending_followup(_MEMORY, conversation_id)
           built == _build_followup_args(pending["tool_name"], pending["tool_args"])
           name == built[1]
           args == built[2]
           out == RunExecutor(name, args, upstream)
           stored == set_last_tool(cleared, conversation_id, name, args)
       IN /\ exec_tool_name' = name
          /\ exec_tool_args' = args
          /\ _MEMORY' = stored
          /\ IF name \notin TOOL_EXECUTORS
             THEN /\ trace' = Append(trace, EvClearPending)
                  /\ response' = AskResponse(<<"Unknown tool: ", name.s>>, None)
                  /\ pc' = "done"
             ELSE IF out.raised
                  THEN /\ trace' = trace \o <<EvClearPending, EvExecute(name, args, out)>>
                       /\ response' =
                            AskResponse(<<"Tool execution failed: ">> \o out.exc,
                                        List(<<[name |-> name, input |-> args]>>))
                       /\ pc' = "done"
                  ELSE /\ trace' = trace \o <<EvClearPending, EvExecute(name, args, out),
                                              EvSetLastTool(name, args)>>
                       /\ response' = None
                       /\ pc' = "summarize"
    /\ UNCHANGED << request, pending, messages, db_related_prompt,
                    no_tool_retry_count, has_called_tool, collected_tool_calls,
                    round, raw >>

\* lines 406-442: the user confirms the pending follow-up; the expanded call
\* is built and executed
FollowupExecute(upstream) ==
    /\ UNCHANGED call
    /\ pc = "resolve"
    /\ Truthy(pending)
    /\ ~_is_negative_followup(prompt)
    /\ _is_affirmative_followup(prompt)
    /\ LET cleared == clear_pending_followup(_MEMORY, conversation_id)
           built == _build_followup_args(pending["tool_name"], pending["tool_args"])
           name == built[1]
           args == built[2]
           out == RunExecutor(name, args, upstream)
       IN /\ exec_tool_name' = name
          /\ exec_tool_args' = args
          /\ IF name \notin TOOL_EXECUTORS
             THEN /\ _MEMORY' = cleared
                  /\ trace' = Append(trace, EvClearPending)
                  /\ response' = AskResponse(<<"Unknown tool: ", name.s>>, None)
                  /\ pc' = "done"
             ELSE IF out.raised
                  THEN /\ _MEMORY' = cleared
                       /\ trace' = trace \o <<EvClearPending, EvExecute(name, args, out)>>
                       /\ response' =
                            AskResponse(<<"Tool execution failed: ">> \o out.exc,
                                        List(<<[name |-> name, input |-> args]>>))
                       /\ pc' = "done"
                  ELSE /\ _MEMORY' = set_last_tool(cleared, conversation_id, name, args)
                       /\ trace' = trace \o <<EvClearPending, EvExecute(name, args, out),
                                              EvSetLastTool(name, args)>>
                       /\ response' = None
                       /\ pc' = "summarize"
    /\ UNCHANGED << request, pending, messages, db_related_prompt,
                    no_tool_retry_count, has_called_tool, collected_tool_calls,
                    round, raw >>

FollowupMessage(name, args) ==
    [role |-> "user", kind |-> "followup_summary",
     content |-> [tool_name |-> name, tool_args |-> args, results |-> Str("rows")]]

\* a variant that arms the new pending follow-up before the summarizing call
FollowupSummarize_ArmFirst(content) ==
    /\ UNCHANGED call
    /\ pc = "summarize"
    /\ messages' = <<FollowupMessage(exec_tool_name, exec_tool_args)>>
    /\ raw' = TextReply(content)
    /\ _MEMORY' = set_pending_followup(_MEMORY, conversation_id,
                      PendingFollowup(exec_tool_name, exec_tool_args))
    /\ trace' = trace \o
          << EvSetPending(PendingFollowup(exec_tool_name, exec_tool_args)),
             EvInvoke("none", 1, FALSE) >>
    /\ response' = AskResponse(extract_text(TextReply(content)),
                               List(<<[name |-> exec_tool_name,
                                       input |-> exec_tool_args]>>))
    /\ pc' = "done"
    /\ UNCHANGED << request, pending, exec_tool_name, exec_tool_args,
                    db_related_prompt, no_tool_retry_count, has_called_tool,
                    collected_tool_calls, round >>

\* lines 444-472: one completion-service call, without tools, summarizes the
\* result; the new pending follow-up is armed
FollowupSummarize(content) ==
    /\ UNCHANGED call
    /\ pc = "summarize"
    /\ messages' = <<FollowupMessage(exec_tool_name, exec_tool_args)>>
    /\ raw' = TextReply(content)
    /\ _MEMORY' = set_pending_followup(_MEMORY, conversation_id,
                      PendingFollowup(exec_tool_name, exec_tool_args))
    /\ trace' = trace \o
          << EvInvoke("none", 1, FALSE),
             EvSetPending(PendingFollowup(exec_tool_name, exec_tool_args)) >>
    /\ response' = AskResponse(extract_text(TextReply(content)),
                               List(<<[name |-> exec_tool_name,
                                       input |-> exec_tool_args]>>))
    /\ pc' = "done"
    /\ UNCHANGED << request, pending, exec_tool_name, exec_tool_args,
                    db_related_prompt, no_tool_retry_count, has_called_tool,
                    collected_tool_calls, round >>

\* line 456 raises: the call is outside any try block, the framework answers
\* with a server error
FollowupSummarizeFails ==
    /\ UNCHANGED call
    /\ pc = "summarize"
    /\ messages' = <<FollowupMessage(exec_tool_name, exec_tool_args)>>
    /\ trace' = Append(trace, EvInvoke("none", 1, TRUE))
    /\ response' = HTTPException(<<"Internal Server Error">>)
    /\ pc' = "done"
    /\ UNCHANGED << _MEMORY, request, pending, exec_tool_name, exec_tool_args,
                    db_related_prompt, no_tool_retry_count, has_called_tool,
                    collected_tool_calls, round, raw >>

\* lines 485-505: the first message, with the hint for a short prompt that
\* follows a tool call
FirstMessage(last_tool_name, last_tool_args, p) ==
    IF last_tool_name # None /\ Len(last_tool_name.s) > 0 /\ WordCount(p) <= 6
    THEN IF _is_affirmative_followup(p)
         THEN [role |-> "user", kind |-> "hint_affirmative",
               content |-> [tool_name |-> last_tool_name,
                            tool_args |-> last_tool_args, prompt |-> p]]
         ELSE [role |-> "user", kind |-> "hint_refine",
               content |-> [tool_name |-> last_tool_name,
                            tool_args |-> last_tool_args, prompt |-> p]]
    ELSE [role |-> "user", kind |-> "prompt", content |-> p]

\* a variant without the inheritance from the last tool
DbRelated_KeywordOnly(last_tool_name, p) == _is_database_related(p)

\* lines 508-510
DbRelated(last_tool_name, p) ==
    _is_database_related(p) \/ (last_tool_name # None /\ WordCount(p) <= 6)

\* lines 474-513: the normal flow starts
BeginNormal ==
    /\ UNCHANGED call
    /\ pc = "resolve"
    /\ ~(Truthy(pending) /\ _is_negative_followup(prompt))
    /\ ~(Truthy(pending) /\ _is_affirmative_followup(prompt))
    /\ LET last == get_last_tool(_MEMORY, conversation_id)
       IN /\ messages' = <<FirstMessage(last[1], last[2], prompt)>>
          /\ db_related_prompt' = DbRelated(last[1], prompt)
    /\ no_tool_retry_count' = 0
    /\ has_called_tool' = FALSE
    /\ collected_tool_calls' = << >>
    /\ round' = 0
    /\ pc' = "loop"
    /\ UNCHANGED << _MEMORY, request, pending, exec_tool_name, exec_tool_args,
                    raw, response, trace >>

\* a variant that undoes the memory writes of the failed request
InvokeFails_Rollback ==
    /\ UNCHANGED call
    /\ pc = "loop"
    /\ round < MAX_TOOL_ROUNDS
    /\ trace' = Append(trace, EvInvoke("TOOL_DEFINITIONS", Len(messages), TRUE))
    /\ response' = HTTPException(<<"invoke_claude failed">>)
    /\ _MEMORY' = memory_at_start
    /\ pc' = "done"
    /\ UNCHANGED << request, locals >>

\* lines 517-521 raise, lines 644-646: the request ends with a server error
InvokeFails ==
    /\ UNCHANGED call
    /\ pc = "loop"
    /\ round < MAX_TOOL_ROUNDS
    /\ trace' = Append(trace, EvInvoke("TOOL_DEFINITIONS", Len(messages), TRUE))
    /\ response' = HTTPException(<<"invoke_claude failed">>)
    /\ pc' = "done"
    /\ UNCHANGED << _MEMORY, request, locals >>

\* a variant in which the nudge does not use up a round
SoftEnforce_FreeRound(content) ==
    /\ UNCHANGED call
    /\ pc = "loop"
    /\ round < MAX_TOOL_ROUNDS
    /\ db_related_prompt
    /\ ~has_called_tool
    /\ no_tool_retry_count < MAX_SOFT_ENFORCEMENT_RETRIES
    /\ raw' = TextReply(content)
    /\ trace' = Append(trace, EvInvoke("TOOL_DEFINITIONS", Len(messages), FALSE))
    /\ messages' = messages \o
          << [role |-> "assistant", kind |-> "assistant", content |-> content],
             [role |-> "user", kind |-> "nudge", content |-> NUDGE] >>
    /\ no_tool_retry_count' = no_tool_retry_count + 1
    /\ UNCHANGED << _MEMORY, pc, request, pending, exec_tool_name, exec_tool_args,
                    db_related_prompt, has_called_tool, collected_tool_calls,
                    round, response >>

\* lines 525-543: a reply without a tool invocation to a database-related
\* prompt, no tool called yet, retries left: the nudge is appended
SoftEnforce(content) ==
    /\ UNCHANGED call
    /\ pc = "loop"
    /\ round < MAX_TOOL_ROUNDS
    /\ db_related_prompt
    /\ ~has_called_tool
    /\ no_tool_retry_count < MAX_SOFT_ENFORCEMENT_RETRIES
    /\ raw' = TextReply(content)
    /\ trace' = Append(trace, EvInvoke("TOOL_DEFINITIONS", Len(messages), FALSE))
    /\ messages' = messages \o
          << [role |-> "assistant", kind |-> "assistant", content |-> content],
             [role |-> "user", kind |-> "nudge", content |-> NUDGE] >>
    /\ no_tool_retry_count' = no_tool_retry_count + 1
    /\ round' = round + 1
    /\ UNCHANGED << _MEMORY, pc, request, pending, exec_tool_name, exec_tool_args,
                    db_related_prompt, has_called_tool, collected_tool_calls,
                    response >>

\* a variant in which the refusal drops the pending follow-up
Refuse_ClearPending(content) ==
    /\ UNCHANGED call
    /\ pc = "loop"
    /\ round < MAX_TOOL_ROUNDS
    /\ db_related_prompt
    /\ ~has_called_tool
    /\ ~(no_tool_retry_count < MAX_SOFT_ENFORCEMENT_RETRIES)
    /\ raw' = TextReply(content)
    /\ trace' = Append(trace, EvInvoke("TOOL_DEFINITIONS", Len(messages), FALSE))
    /\ _MEMORY' = clear_pending_followup(_MEMORY, conversation_id)
    /\ response' = AskResponse(REFUSAL_ANSWER, OrNone(collected_tool_calls))
    /\ pc' = "done"
    /\ UNCHANGED << request, pending, exec_tool_name, exec_tool_args,
                    messages, db_related_prompt, no_tool_retry_count,
                    has_called_tool, collected_tool_calls, round >>

\* lines 545-552: retries exhausted and still no tool called: the refusal
Refuse(content) ==
    /\ UNCHANGED call
    /\ pc = "loop"
    /\ round < MAX_TOOL_ROUNDS
    /\ db_related_prompt
    /\ ~has_called_tool
    /\ ~(no_tool_retry_count < MAX_SOFT_ENFORCEMENT_RETRIES)
    /\ raw' = TextReply(content)
    /\ trace' = Append(trace, EvInvoke("TOOL_DEFINITIONS", Len(messages), FALSE))
    /\ response' = AskResponse(REFUSAL_ANSWER, OrNone(collected_tool_calls))
    /\ pc' = "done"
    /\ UNCHANGED << _MEMORY, request, pending, exec_tool_name, exec_tool_args,
                    messages, db_related_prompt, no_tool_retry_count,
                    has_called_tool, collected_tool_calls, round >>

\* the pending follow-up armed from the last collected call (lines 556-562 and
\* 629-635)
ArmPending(M, cid, called, collected) ==
    IF called /\ collected # << >>
    THEN set_pending_followup(M, cid,
             PendingFollowup(collected[Len(collected)].name,
                             collected[Len(collected)].input))
    ELSE M

ArmTrace(called, collected) ==
    IF called /\ collected # << >>
    THEN << EvSetPending(PendingFollowup(collected[Len(collected)].name,
                                         collected[Len(collected)].input)) >>
    ELSE << >>

\* lines 554-569: a reply without a tool invocation ends the request with the
\* model's text
Answer(content) ==
    /\ UNCHANGED call
    /\ pc = "loop"
    /\ round < MAX_TOOL_ROUNDS
    /\ ~(db_related_prompt /\ ~has_called_tool)
    /\ raw' = TextReply(content)
    /\ _MEMORY' = ArmPending(_MEMORY, conversation_id, has_called_tool,
                             collected_tool_calls)
    /\ trace' = Append(trace, EvInvoke("TOOL_DEFINITIONS", Len(messages), FALSE))
                  \o ArmTrace(has_called_tool, collected_tool_calls)
    /\ response' = AskResponse(extract_text(TextReply(content)),
                               OrNone(collected_tool_calls))
    /\ pc' = "done"
    /\ UNCHANGED << request, pending, exec_tool_name, exec_tool_args, messages,
                    db_related_prompt, no_tool_retry_count, has_called_tool,
                    collected_tool_calls, round >>

\* lines 597-610: the tool_result content of one invocation
ResultContent(known, tool_name, out) ==
    IF ~known THEN [error |-> <<"Unknown tool: ", tool_name.s>>]
    ELSE IF out.raised THEN [error |-> <<"Tool execution failed: ">> \o out.exc]
         ELSE [data |-> out.result]

\* a variant that gives no tool_result to an invocation of an unknown tool
ProcessedCall_SkipUnknown(tc, up, cid, p, acc) ==
    LET tool_name == tc.name
        tool_input == _enforce_prompt_filters(tool_name, tc.input, p)
        known == tool_name \in TOOL_EXECUTORS
        out == RunExecutor(tool_name, tool_input, up)
    IN [collected |-> Append(acc.collected, [name |-> tool_name, input |-> tool_input]),
        memory |-> IF known THEN set_last_tool(acc.memory, cid, tool_name, tool_input)
                   ELSE acc.memory,
        tool_results |-> IF known
                         THEN Append(acc.tool_results,
                                [type |-> "tool_result", tool_use_id |-> tc.id,
                                 content |-> ResultContent(known, tool_name, out)])
                         ELSE acc.tool_results,
        trace |-> acc.trace \o
                  (IF known THEN << EvExecute(tool_name, tool_input, out),
                                    EvSetLastTool(tool_name, tool_input) >>
                   ELSE << >>)]

\* a variant that stores the input as the service proposed it
ProcessedCall_RawStored(tc, up, cid, p, acc) ==
    LET tool_name == tc.name
        tool_input == _enforce_prompt_filters(tool_name, tc.input, p)
        known == tool_name \in TOOL_EXECUTORS
        out == RunExecutor(tool_name, tool_input, up)
    IN [collected |-> Append(acc.collected, [name |-> tool_name, input |-> tool_input]),
        memory |-> IF known THEN set_last_tool(acc.memory, cid, tool_name, tc.input)
                   ELSE acc.memory,
        tool_results |-> Append(acc.tool_results,
                           [type |-> "tool_result", tool_use_id |-> tc.id,
                            content |-> ResultContent(known, tool_name, out)]),
        trace |-> acc.trace \o
                  (IF known THEN << EvExecute(tool_name, tool_input, out),
                                    EvSetLastTool(tool_name, tc.input) >>
                   ELSE << >>)]

\* the step of lines 581-622 for one invocation
ProcessedCall(tc, up, cid, p, acc) ==
    LET tool_name == tc.name
        tool_input == _enforce_prompt_filters(tool_name, tc.input, p)
        known == tool_name \in TOOL_EXECUTORS
        out == RunExecutor(tool_name, tool_input, up)
    IN [collected |-> Append(acc.collected, [name |-> tool_name, input |-> tool_input]),
        memory |-> IF known THEN set_last_tool(acc.memory, cid, tool_name, tool_input)
                   ELSE acc.memory,
        tool_results |-> Append(acc.tool_results,
                           [type |-> "tool_result", tool_use_id |-> tc.id,
                            content |-> ResultContent(known, tool_name, out)]),
        trace |-> acc.trace \o
                  (IF known THEN << EvExecute(tool_name, tool_input, out),
                                    EvSetLastTool(tool_name, tool_input) >>
                   ELSE << >>)]

\* a variant that leaves the for loop at the first unknown tool
RECURSIVE ProcessToolCalls_BreakOnUnknown(_, _, _, _, _, _)
ProcessToolCalls_BreakOnUnknown(tool_calls, i, upstream, cid, p, acc) ==
    IF i > Len(tool_calls) THEN acc
    ELSE IF tool_calls[i].name \notin TOOL_EXECUTORS
         THEN ProcessedCall(tool_calls[i], upstream[i], cid, p, acc)
         ELSE ProcessToolCalls_BreakOnUnknown(tool_calls, i + 1, upstream, cid, p,
                  ProcessedCall(tool_calls[i], upstream[i], cid, p, acc))

\* a variant that leaves the for loop at the first executor that raises
RECURSIVE ProcessToolCalls_BreakOnRaise(_, _, _, _, _, _)
ProcessToolCalls_BreakOnRaise(tool_calls, i, upstream, cid, p, acc) ==
    LET next == ProcessedCall(tool_calls[i], upstream[i], cid, p, acc)
    IN IF i > Len(tool_calls) THEN acc
       ELSE IF /\ tool_calls[i].name \in TOOL_EXECUTORS
               /\ "error" \in DOMAIN next.tool_results[Len(next.tool_results)].content
            THEN next
            ELSE ProcessToolCalls_BreakOnRaise(tool_calls, i + 1, upstream, cid, p, next)

\* lines 581-622 for the invocations tool_calls[i], tool_calls[i+1], ...:
\* acc holds collected_tool_calls, _MEMORY, tool_results and the trace
RECURSIVE ProcessToolCalls(_, _, _, _, _, _)
ProcessToolCalls(tool_calls, i, upstream, cid, p, acc) ==
    IF i > Len(tool_calls) THEN acc
    ELSE ProcessToolCalls(tool_calls, i + 1, upstream, cid, p,
                          ProcessedCall(tool_calls[i], upstream[i], cid, p, acc))

\* an upstream outcome matters only for an invocation whose executor reaches
\* the upstream
ReachesUpstream(tc, p) ==
    /\ tc.name \in TOOL_EXECUTORS
    /\ Validates(tc.name, _enforce_prompt_filters(tc.name, tc.input, p))

\* lines 571-624: a reply with tool invocations; each is reconciled, executed
\* and answered with a tool_result
ToolRound(content, upstream) ==
    /\ UNCHANGED call
    /\ pc = "loop"
    /\ round < MAX_TOOL_ROUNDS
    /\ LET reply == ToolUseReply(content, round + 1)
           tool_calls == extract_tool_calls(reply)
           done == ProcessToolCalls(tool_calls, 1, upstream, conversation_id, prompt,
                       [collected |-> collected_tool_calls, memory |-> _MEMORY,
                        tool_results |-> << >>,
                        trace |-> Append(trace,
                            EvInvoke("TOOL_DEFINITIONS", Len(messages), FALSE))])
       IN /\ DOMAIN upstream = DOMAIN tool_calls
          /\ \/ ToolRoundCount(messages) < MaxFreeToolRounds
             \/ /\ WithIds(content, round) = raw.content
                /\ \A i \in DOMAIN upstream : upstream[i] = "ok"
          /\ UpstreamErrorCount(done.trace) <= MaxUpstreamErrors
          /\ \A i \in DOMAIN tool_calls :
                ~ReachesUpstream(tool_calls[i], prompt) => upstream[i] = "ok"
          /\ raw' = reply
          /\ has_called_tool' = TRUE
          /\ collected_tool_calls' = done.collected
          /\ _MEMORY' = done.memory
          /\ trace' = done.trace
          /\ messages' = messages \o
                << [role |-> "assistant", kind |-> "assistant",
                    content |-> reply.content],
                   [role |-> "user", kind |-> "tool_results",
                    content |-> done.tool_results] >>
    /\ round' = round + 1
    /\ UNCHANGED << pc, request, pending, exec_tool_name, exec_tool_args,
                    db_related_prompt, no_tool_retry_count, response >>

\* lines 626-642: the round budget is used up
Exhausted ==
    /\ UNCHANGED call
    /\ pc = "loop"
    /\ round = MAX_TOOL_ROUNDS
    /\ _MEMORY' = ArmPending(_MEMORY, conversation_id, has_called_tool,
                             collected_tool_calls)
    /\ trace' = trace \o ArmTrace(has_called_tool, collected_tool_calls)
    /\ response' = AskResponse(IF extract_text(raw) = << >> THEN UNABLE_ANSWER
                               ELSE extract_text(raw),
                               OrNone(collected_tool_calls))
    /\ pc' = "done"
    /\ UNCHANGED << request, locals >>

Next ==
    \/ \E cid \in ConvKeys, p \in Prompts : Receive(cid, p)
    \/ Decline
    \/ \E upstream \in Upstream : FollowupExecute(upstream)
    \/ \E content \in TextReplies : FollowupSummarize(content)
    \/ FollowupSummarizeFails
    \/ BeginNormal
    \/ InvokeFails
    \/ \E content \in TextReplies : SoftEnforce(content)
    \/ \E content \in TextReplies : Refuse(content)
    \/ \E content \in TextReplies : Answer(content)
    \/ \E content \in ToolReplies :
          \E upstream \in [1..Cardinality({i \in DOMAIN content :
                                              content[i].type = "tool_use"})
                           -> Upstream] :
             ToolRound(content, upstream)
    \/ Exhausted

Spec == Init /\ [][Next]_vars

(***************************************************************************)
(* One executor call on its own: the tool name, the raw input and the      *)
(* upstream outcome are drawn from the sets below, Execute applies the     *)
(* executor registered under the name.                                     *)
(***************************************************************************)
D_NL == D_OK \o <<"\n">>
D_SLASH == <<"2","0","2","6","/","0","1","/","0","1">>
D_SHORT == <<"2","0","2","6","-","1","-","1">>
C_BLANK == <<" ", " ">>

ExecDates == {None, Str(D_OK), Str(D_NL), Str(D_SLASH), Str(D_SHORT)}
ExecLimits == {None, Num(0), Num(1), Num(100), Num(101), Num(500)}
ExecMetrics == {None, Str("count"), Str("sum")}
ExecGroupBy == {Str("country"), Str("posted_month"), Str("salary")}
ExecCountries == {None, Str(C_DE), Str(C_BLANK)}

ExecSearchInputs ==
    {[posted_start |-> d, limit |-> l] : d \in ExecDates, l \in ExecLimits}
        \cup {[posted_end |-> d] : d \in ExecDates}
ExecStatsInputs ==
    {[metric |-> m, group_by |-> g, posted_end |-> d, country |-> c] :
        m \in ExecMetrics, g \in ExecGroupBy, d \in ExecDates, c \in ExecCountries}

ExecCalls ==
    {[name |-> Str("search_jobs"), input |-> i, upstream |-> u, out |-> None] :
        i \in ExecSearchInputs, u \in Upstream}
        \cup
    {[name |-> Str("job_stats"), input |-> i, upstream |-> u, out |-> None] :
        i \in ExecStatsInputs, u \in Upstream}

InitExecutor ==
    /\ _MEMORY = EmptyDict
    /\ pc = "idle"
    /\ nreq = 0
    /\ conversation_id = "A"
    /\ prompt = << >>
    /\ pending = None
    /\ exec_tool_name = None
    /\ exec_tool_args = None
    /\ messages = << >>
    /\ db_related_prompt = FALSE
    /\ no_tool_retry_count = 0
    /\ has_called_tool = FALSE
    /\ collected_tool_calls = << >>
    /\ round = 0
    /\ raw = NoReply
    /\ response = None
    /\ trace = << >>
    /\ memory_at_start = EmptyDict
    /\ call \in ExecCalls

\* executor = TOOL_EXECUTORS[name]; executor(tool_input)
Execute ==
    /\ call # None
    /\ call.out = None
    /\ call' = [call EXCEPT !.out = RunExecutor(call.name, call.input, call.upstream)]
    /\ UNCHANGED << _MEMORY, pc, request, locals, response, trace >>

NextExecutor == Execute

SpecExecutor == InitExecutor /\ [][NextExecutor]_vars

(***************************************************************************)
(* One call of _enforce_prompt_filters on its own.  The proposed input is  *)
(* an object on a heap of dicts, so that a copy and the object it was made *)
(* from are told apart.                                                    *)
(***************************************************************************)
\* the request handler at rest
HandlerAtRest ==
    /\ _MEMORY = EmptyDict
    /\ pc = "idle"
    /\ nreq = 0
    /\ conversation_id = "A"
    /\ prompt = << >>
    /\ pending = None
    /\ exec_tool_name = None
    /\ exec_tool_args = None
    /\ messages = << >>
    /\ db_related_prompt = FALSE
    /\ no_tool_retry_count = 0
    /\ has_called_tool = FALSE
    /\ collected_tool_calls = << >>
    /\ round = 0
    /\ raw = NoReply
    /\ response = None
    /\ trace = << >>
    /\ memory_at_start = EmptyDict

G_NON == <<"N","o","n","-","R","e","s","e","a","r","c","h"," ","j","o","b","s">>
G_NOT == <<"n","o","t"," ","r","e","s","e","a","r","c","h">>
G_EXCL == <<"e","x","c","l","u","d","i","n","g"," ","r","e","s","e","a","r","c","h">>
G_RES == <<"R","E","S","E","A","R","C","H"," ","r","o","l","e","s">>
G_NO == <<"n","o"," ","r","e","s","e","a","r","c","h">>
G_PLAIN == <<"j","o","b","s"," ","i","n"," ","B","e","r","l","i","n">>
G_SEARCH == <<"s","e","a","r","c","h">>
GuardrailPrompts == {G_NON, G_NOT, G_EXCL, G_RES, G_NO, G_PLAIN, G_SEARCH}

GuardrailTools ==
    {Str("search_jobs"), Str("job_stats"), Str("semantic_search_jobs"), UNKNOWN_TOOL}

\* proposed inputs: is_research absent, null, true or false, among other keys
GuardrailInputs ==
    {EmptyDict, [country |-> Str(C_DE)], [is_research |-> None],
     [is_research |-> Bool(TRUE)], [is_research |-> Bool(FALSE)],
     [is_research |-> None, country |-> Str(C_DE), limit |-> Num(500)],
     [is_research |-> Bool(TRUE), country |-> Str(C_DE), limit |-> Num(500)],
     [is_research |-> Bool(FALSE), metric |-> Str("count"),
      group_by |-> Str("country")],
     [metric |-> Str("count"), group_by |-> Str("country")]}

GuardrailCalls ==
    {[fn |-> "_enforce_prompt_filters", tool_name |-> tn, prompt |-> p,
      heap |-> <<i>>, tool_input |-> 1, out |-> None] :
        tn \in GuardrailTools, p \in GuardrailPrompts, i \in GuardrailInputs}

\* a variant that writes the filter into the proposed input itself
EnforcePromptFiltersCall_InPlace(heap, tool_input, tool_name, p) ==
    [heap |-> [heap EXCEPT ![tool_input] =
                  _enforce_prompt_filters(tool_name, heap[tool_input], p)],
     ref |-> tool_input]

\* lines 322-330: dict(tool_input) is a new object, the filter is written
\* into it, and it is what is returned
EnforcePromptFiltersCall(heap, tool_input, tool_name, p) ==
    [heap |-> Append(heap, _enforce_prompt_filters(tool_name, heap[tool_input], p)),
     ref |-> Len(heap) + 1]

InitGuardrail == HandlerAtRest /\ call \in GuardrailCalls

Reconcile ==
    /\ call # None
    /\ call.fn = "_enforce_prompt_filters"
    /\ call.out = None
    /\ call' = [call EXCEPT !.out =
                  EnforcePromptFiltersCall(call.heap, call.tool_input,
                                           call.tool_name, call.prompt)]
    /\ UNCHANGED << _MEMORY, pc, request, locals, response, trace >>

NextGuardrail == Reconcile

SpecGuardrail == InitGuardrail /\ [][NextGuardrail]_vars

(***************************************************************************)
(* The memory operations on their own, called in any order for any         *)
(* conversation; call is the last operation and memory_at_start the memory *)
(* it was applied to.  The handler has no await, so the operations of      *)
(* different requests never overlap.                                       *)
(***************************************************************************)
MemKeys == {"A", "B"}
MemTools == { <<Str("job_stats"), STATS_ARGS>>, <<Str("search_jobs"), SEARCH_ARGS>> }
MemFollowups == {PendingFollowup(tl[1], tl[2]) : tl \in MemTools}

InitMemory ==
    /\ _MEMORY = EmptyDict
    /\ pc = "idle"
    /\ nreq = 0
    /\ conversation_id = "A"
    /\ prompt = << >>
    /\ pending = None
    /\ exec_tool_name = None
    /\ exec_tool_args = None
    /\ messages = << >>
    /\ db_related_prompt = FALSE
    /\ no_tool_retry_count = 0
    /\ has_called_tool = FALSE
    /\ collected_tool_calls = << >>
    /\ round = 0
    /\ raw = NoReply
    /\ response = None
    /\ trace = << >>
    /\ memory_at_start = EmptyDict
    /\ call = [fn |-> "none", cid |-> "A"]

MemSetLastTool(cid, tl) ==
    /\ memory_at_start' = _MEMORY
    /\ _MEMORY' = set_last_tool(_MEMORY, cid, tl[1], tl[2])
    /\ call' = [fn |-> "set_last_tool", cid |-> cid, tool_name |-> tl[1],
                tool_args |-> tl[2]]
    /\ UNCHANGED << pc, nreq, conversation_id, prompt, locals, response, trace >>

MemSetPending(cid, followup) ==
    /\ memory_at_start' = _MEMORY
    /\ _MEMORY' = set_pending_followup(_MEMORY, cid, followup)
    /\ call' = [fn |-> "set_pending_followup", cid |-> cid, followup |-> followup]
    /\ UNCHANGED << pc, nreq, conversation_id, prompt, locals, response, trace >>

MemClearPending(cid) ==
    /\ memory_at_start' = _MEMORY
    /\ _MEMORY' = clear_pending_followup(_MEMORY, cid)
    /\ call' = [fn |-> "clear_pending_followup", cid |-> cid]
    /\ UNCHANGED << pc, nreq, conversation_id, prompt, locals, response, trace >>

NextMemory ==
    \/ \E cid \in MemKeys, tl \in MemTools : MemSetLastTool(cid, tl)
    \/ \E cid \in MemKeys, followup \in MemFollowups : MemSetPending(cid, followup)
    \/ \E cid \in MemKeys : MemClearPending(cid)

SpecMemory == InitMemory /\ [][NextMemory]_vars

(***************************************************************************)
(* The aggregation of execute_job_stats (joblab_tools.py:184-264) over the *)
(* rows _paginated_fetch returned.  A row holds the one selected column,   *)
(* so a row is the value of that column: None or Str.  A dict that is      *)
(* filled row by row is the sequence of its items in insertion order.  A   *)
(* float rounded to two places is the number of its hundredths.            *)
(***************************************************************************)
Float2(h) == [hundredths |-> h]

\* round(num / den * 100, 2) in hundredths, for den > 0: the nearest
\* hundredth, a tie going to the even one
RoundPercent(num, den) ==
    LET n == num * 10000
        q == n \div den
        r == n - q * den
    IN IF 2 * r < den THEN q
       ELSE IF 2 * r > den THEN q + 1
            ELSE IF q % 2 = 0 THEN q ELSE q + 1

\* the characters of the dates, in code point order
CODE_POINT_ORDER == <<"-", "0", "1", "2", "3", "4", "5", "6", "7", "8", "9", ":", "T">>
CodePoint(c) == CHOOSE i \in DOMAIN CODE_POINT_ORDER : CODE_POINT_ORDER[i] = c

\* a < b for two str
RECURSIVE StrLess(_, _)
StrLess(a, b) ==
    IF b = << >> THEN FALSE
    ELSE IF a = << >> THEN TRUE
    ELSE IF Head(a) = Head(b) THEN StrLess(Tail(a), Tail(b))
    ELSE CodePoint(Head(a)) < CodePoint(Head(b))

\* key in counts
Counted(counts, key) == \E i \in DOMAIN counts : counts[i].value = key

\* a count that adds two for a key already counted
CountInto_Twice(counts, key) ==
    IF Counted(counts, key)
    THEN LET i == CHOOSE i \in DOMAIN counts : counts[i].value = key
         IN [counts EXCEPT ![i].count = @ + 2]
    ELSE Append(counts, [value |-> key, count |-> 1])

\* counts[key] = counts.get(key, 0) + 1
CountInto(counts, key) ==
    IF Counted(counts, key)
    THEN LET i == CHOOSE i \in DOMAIN counts : counts[i].value = key
         IN [counts EXCEPT ![i].count = @ + 1]
    ELSE Append(counts, [value |-> key, count |-> 1])

\* for key in keys: counts[key] = counts.get(key, 0) + 1
RECURSIVE CountAll(_, _)
CountAll(keys, counts) ==
    IF keys = << >> THEN counts
    ELSE IF Counted(counts, Head(keys))
         THEN CountAll(Tail(keys), CountInto(counts, Head(keys)))
         ELSE CountAll(Tail(keys), Append(counts, [value |-> Head(keys), count |-> 1]))

\* str(posted_date)[:7]
MonthKey(v) == SubSeq(v.s, 1, Min(7, Len(v.s)))

\* lines 188-192: the row is not skipped
HasMonthKey(posted_date) ==
    /\ ~(posted_date = None \/ posted_date.s = << >>)
    /\ ~(Len(MonthKey(posted_date)) # 7 \/ MonthKey(posted_date)[5] # "-")

\* lines 186-193: the rows that are counted, under their month
MonthCounts(rows) ==
    LET counted == SelectSeq(rows, HasMonthKey)
    IN CountAll([i \in DOMAIN counted |-> MonthKey(counted[i])], << >>)

\* the months as the rows brought them, unsorted
SortedMonths_InsertionOrder(month_counts) == month_counts

\* sorted(month_counts.keys()): the items in ascending order of their key
RECURSIVE SortedMonths(_)
SortedMonths(month_counts) ==
    IF month_counts = << >> THEN << >>
    ELSE LET least == CHOOSE i \in DOMAIN month_counts :
                         \A j \in DOMAIN month_counts :
                             j # i => StrLess(month_counts[i].value,
                                              month_counts[j].value)
             rest == SubSeq(month_counts, 1, least - 1)
                        \o SubSeq(month_counts, least + 1, Len(month_counts))
         IN <<month_counts[least]>> \o SortedMonths(rest)

\* lines 196-217: one bucket for each month, with the change from the bucket
\* before it; previous_count is None at the first month
RECURSIVE MonthlyBuckets(_, _)
MonthlyBuckets(sorted_months, previous_count) ==
    IF sorted_months = << >> THEN << >>
    ELSE LET count == Head(sorted_months).count
             delta == IF previous_count = None THEN None
                      ELSE Num(count - previous_count.n)
             percent_change ==
                 IF previous_count = None THEN None
                 ELSE IF previous_count.n = 0 THEN None
                      ELSE Float2(RoundPercent(count - previous_count.n,
                                               previous_count.n))
         IN << [value |-> Str(Head(sorted_months).value), count |-> Num(count),
                delta_from_previous |-> delta,
                percent_change |-> percent_change] >>
            \o MonthlyBuckets(Tail(sorted_months), Num(count))

\* lines 225-237: the filter on the grouped dimension, None for a dimension
\* JobStatsInput has no filter for
DimensionFilterValue(params) ==
    IF params["group_by"].s \in {"country", "job_type_filled"}
    THEN Get(params, params["group_by"].s)
    ELSE None

\* a collapse for the country dimension alone
total_only_mode_CountryOnly(params) ==
    /\ params["group_by"].s = "country"
    /\ Get(params, "country") # None
    /\ Strip(Get(params, "country").s) # << >>

\* a collapse for every filter value that is not None, blank ones included
total_only_mode_AnyValue(params) ==
    /\ params["metric"].s = "count"
    /\ DimensionFilterValue(params) # None

total_only_mode(params) ==
    /\ params["metric"].s = "count"
    /\ DimensionFilterValue(params) # None
    /\ Strip(DimensionFilterValue(params).s) # << >>

\* lines 250-254: key = row.get(col) or "Unknown"
GroupKey(v) ==
    IF v = None \/ v.s = << >> THEN <<"U","n","k","n","o","w","n">> ELSE v.s

GroupCounts(rows) == CountAll([i \in DOMAIN rows |-> GroupKey(rows[i])], << >>)

\* a descending sort that puts the later of two items of equal count first
RECURSIVE SortedByCountDesc_TiesReversed(_)
SortedByCountDesc_TiesReversed(items) ==
    IF items = << >> THEN << >>
    ELSE LET first == CHOOSE i \in DOMAIN items :
                         /\ \A j \in DOMAIN items : items[j].count <= items[i].count
                         /\ \A j \in (i + 1)..Len(items) : items[j].count < items[i].count
             rest == SubSeq(items, 1, first - 1)
                        \o SubSeq(items, first + 1, Len(items))
         IN <<items[first]>> \o SortedByCountDesc_TiesReversed(rest)

\* sorted(items, key=count, reverse=True): a stable sort, items of equal
\* count keep their order
RECURSIVE SortedByCountDesc(_)
SortedByCountDesc(items) ==
    IF items = << >> THEN << >>
    ELSE LET first == CHOOSE i \in DOMAIN items :
                         /\ \A j \in DOMAIN items : items[j].count <= items[i].count
                         /\ \A j \in 1..(i - 1) : items[j].count < items[i].count
             rest == SubSeq(items, 1, first - 1)
                        \o SubSeq(items, first + 1, Len(items))
         IN <<items[first]>> \o SortedByCountDesc(rest)

TOP_GROUPS == 25

\* lines 257-261
GroupedResult(rows) ==
    LET sorted == SortedByCountDesc(GroupCounts(rows))
    IN [i \in 1..Min(TOP_GROUPS, Len(sorted)) |->
           [value |-> Str(sorted[i].value), count |-> Num(sorted[i].count)]]

\* lines 184-264: the result of execute_job_stats for the validated input
\* params and the fetched rows
JobStatsResult(params, rows) ==
    IF params["group_by"].s = "posted_month"
    THEN MonthlyBuckets(SortedMonths(MonthCounts(rows)), None)
    ELSE IF total_only_mode(params)
         THEN << [value |-> Str("total"), count |-> Num(Len(rows))] >>
         ELSE GroupedResult(rows)

(***************************************************************************)
(* SpecStats: one aggregation by execute_job_stats.  The data store answers *)
(* with a list of rows; the list is written as the values it holds and how *)
(* often each occurs, in the order the store returns them or in reverse.    *)
(***************************************************************************)
Copies(v, n) == [i \in 1..n |-> v]

RECURSIVE RowsOf(_)
RowsOf(held) ==
    IF held = << >> THEN << >>
    ELSE Copies(Head(held).value, Head(held).count) \o RowsOf(Tail(held))

Reversed(s) == [i \in 1..Len(s) |-> s[Len(s) + 1 - i]]

Held(v, n) == [value |-> v, count |-> n]

M_JAN == Str(<<"2","0","2","6","-","0","1","-","1","5">>)
M_FEB == Str(<<"2","0","2","6","-","0","2","-","0","3">>)
M_MAR == Str(<<"2","0","2","6","-","0","3","-","0","9">>)
M_MAR_TS == Str(<<"2","0","2","6","-","0","3","-","2","1","T","0","0",":","0","0">>)
M_DEC == Str(<<"2","0","2","5","-","1","2","-","3","1">>)
M_SHORT == Str(<<"2","0","2","6">>)
M_COMPACT == Str(<<"2","0","2","6","0","3","0","9">>)
\* a date written without leading zeros
M_LOOSE == Str(<<"2","0","2","6","-","3","-","9">>)

DECIMALS == <<"0", "1", "2", "3", "4", "5", "6", "7", "8", "9">>
\* the i-th of the group values "00", "01", ...
GroupValue(i) == Str(<<DECIMALS[(i \div 10) + 1], DECIMALS[(i % 10) + 1]>>)

StatsHeld ==
    { << >>,
      <<Held(M_FEB, 15), Held(M_JAN, 10)>>,
      <<Held(M_JAN, 10), Held(M_FEB, 15), Held(M_MAR, 0)>>,
      <<Held(M_JAN, 3), Held(M_MAR, 1), Held(None, 2), Held(M_DEC, 6),
        Held(Str(<< >>), 1), Held(M_COMPACT, 1), Held(M_MAR_TS, 2),
        Held(M_SHORT, 1), Held(M_JAN, 1)>>,
      <<Held(M_DEC, 2), Held(M_LOOSE, 1), Held(M_JAN, 4), Held(None, 1)>>,
      <<Held(Str(C_DE), 37)>>,
      <<Held(None, 1), Held(Str(C_DE), 2), Held(Str(<< >>), 1),
        Held(Str(<<"U","n","k","n","o","w","n">>), 1), Held(M_JAN, 2)>>,
      [i \in 1..26 |-> Held(GroupValue(i), 1)],
      [i \in 1..40 |-> Held(GroupValue(i), 1 + (i % 3))] }

StatsRows == {RowsOf(h) : h \in StatsHeld} \cup {Reversed(RowsOf(h)) : h \in StatsHeld}

StatsGroupBy == {"posted_month", "country", "job_type_filled", "platform"}
StatsCountries == {None, Str(C_DE), Str(C_BLANK), Str(<< >>)}
StatsJobTypes == {None, Str(<<"F","u","l","l","-","t","i","m","e">>), Str(C_BLANK)}

StatsParams ==
    {[metric |-> Str("count"), group_by |-> Str(g), country |-> c,
      job_type_filled |-> j] :
        g \in StatsGroupBy, c \in StatsCountries, j \in StatsJobTypes}

StatsCalls ==
    {[fn |-> "execute_job_stats", params |-> p, rows |-> r, out |-> None] :
        p \in {q \in StatsParams : JobStatsInput(q)}, r \in StatsRows}

InitStats == HandlerAtRest /\ call \in StatsCalls

\* lines 184-264 of execute_job_stats, after the rows were fetched
Aggregate ==
    /\ call.fn = "execute_job_stats"
    /\ call.out = None
    /\ call' = [call EXCEPT !.out = List(JobStatsResult(call.params, call.rows))]
    /\ UNCHANGED << _MEMORY, pc, request, locals, response, trace >>

NextStats == Aggregate

SpecStats == InitStats /\ [][NextStats]_vars

(***************************************************************************)
(* match_cv (app/services/cv_service.py:96-329).  A chunk row is a job_id  *)
(* and a similarity in units of 0.00001; a row of the jobs table is the    *)
(* record of its columns, posted_date a day number.  The embedding and the *)
(* two databases either answer or raise.                                   *)
(***************************************************************************)
MIN_STRICT == 5
TARGET_TOTAL_OneLess == 10 - 1
TARGET_TOTAL == 10
NO_FILTER_TOTAL == 10
MAX_CANDIDATES == 50
RECENCY_DAYS == 30

ListTruthy(v) == v # None /\ v.l # << >>
StrTruthy(v) == v # None /\ v.s # << >>

\* line 150
has_filters(f) ==
    \/ ListTruthy(f.countries)
    \/ ListTruthy(f.job_levels)
    \/ ListTruthy(f.job_functions)
    \/ ListTruthy(f.platforms)
    \/ f.is_remote # None
    \/ StrTruthy(f.role_keyword)

\* line 151
match_count(f) == IF has_filters(f) THEN 100 ELSE 30

InBest(best_by_job, jid) == \E i \in DOMAIN best_by_job : best_by_job[i].job_id = jid
BestOf(best_by_job, jid) ==
    CHOOSE i \in DOMAIN best_by_job : best_by_job[i].job_id = jid

\* the similarity of the first chunk of each job, later chunks ignored
RECURSIVE BestByJob_FirstSeen(_, _)
BestByJob_FirstSeen(chunk_rows, best_by_job) ==
    IF chunk_rows = << >> THEN best_by_job
    ELSE LET jid == Head(chunk_rows).job_id
             sim == Head(chunk_rows).similarity
         IN IF StrTruthy(jid) /\ ~InBest(best_by_job, jid)
            THEN BestByJob_FirstSeen(Tail(chunk_rows),
                     Append(best_by_job, [job_id |-> jid, similarity |-> sim]))
            ELSE BestByJob_FirstSeen(Tail(chunk_rows), best_by_job)

\* lines 163-168: the highest similarity of each job, in the order the jobs
\* were first seen
RECURSIVE BestByJob(_, _)
BestByJob(chunk_rows, best_by_job) ==
    IF chunk_rows = << >> THEN best_by_job
    ELSE LET jid == Head(chunk_rows).job_id
             sim == Head(chunk_rows).similarity
         IN IF ~StrTruthy(jid) THEN BestByJob(Tail(chunk_rows), best_by_job)
            ELSE IF ~InBest(best_by_job, jid)
                 THEN BestByJob(Tail(chunk_rows),
                          Append(best_by_job, [job_id |-> jid, similarity |-> sim]))
                 ELSE IF sim > best_by_job[BestOf(best_by_job, jid)].similarity
                      THEN BestByJob(Tail(chunk_rows),
                               [best_by_job EXCEPT
                                   ![BestOf(best_by_job, jid)].similarity = sim])
                      ELSE BestByJob(Tail(chunk_rows), best_by_job)

\* line 171: sorted(..., key=similarity, reverse=True), a stable sort
RECURSIVE SortedBySimilarityDesc(_)
SortedBySimilarityDesc(items) ==
    IF items = << >> THEN << >>
    ELSE LET first == CHOOSE i \in DOMAIN items :
                         /\ \A j \in DOMAIN items :
                               items[j].similarity <= items[i].similarity
                         /\ \A j \in 1..(i - 1) :
                               items[j].similarity < items[i].similarity
             rest == SubSeq(items, 1, first - 1)
                        \o SubSeq(items, first + 1, Len(items))
         IN <<items[first]>> \o SortedBySimilarityDesc(rest)

\* line 180
Candidates(all_jobs_sorted) ==
    SubSeq(all_jobs_sorted, 1, Min(MAX_CANDIDATES, Len(all_jobs_sorted)))

\* lines 186-192: the rows of the candidates that the jobs table holds
InJobMeta(jobs_table, jid) == \E i \in DOMAIN jobs_table : jobs_table[i].job_id = jid
JobMeta(jobs_table, jid) ==
    jobs_table[CHOOSE i \in DOMAIN jobs_table : jobs_table[i].job_id = jid]

\* the candidates that the jobs table holds, whatever their posted_date
RecentJobs_AnyDate(candidates, jobs_table, today) ==
    SelectSeq(candidates, LAMBDA c : InJobMeta(jobs_table, c.job_id))

\* lines 196-203: the candidates posted within the last 30 days, or undated
RecentJobs(candidates, jobs_table, today) ==
    SelectSeq(candidates,
              LAMBDA c : /\ InJobMeta(jobs_table, c.job_id)
                         /\ \/ JobMeta(jobs_table, c.job_id).posted_date = None
                            \/ JobMeta(jobs_table, c.job_id).posted_date.n
                                  >= today - RECENCY_DAYS)

\* lines 210-226
passes_filters(meta, f) ==
    /\ ~(ListTruthy(f.countries)
            /\ \A i \in DOMAIN f.countries.l : f.countries.l[i] # meta.country)
    /\ ~(ListTruthy(f.job_levels)
            /\ \A i \in DOMAIN f.job_levels.l : f.job_levels.l[i] # meta.job_level_std)
    /\ ~(ListTruthy(f.job_functions)
            /\ \A i \in DOMAIN f.job_functions.l :
                  f.job_functions.l[i] # meta.job_function_std)
    /\ ~(ListTruthy(f.platforms)
            /\ \A i \in DOMAIN f.platforms.l : f.platforms.l[i] # meta.platform)
    /\ ~(f.is_remote # None /\ meta.is_remote.b # f.is_remote.b)
    /\ ~(StrTruthy(f.role_keyword)
            /\ ~Contains(Lower(meta.actual_role.s), Lower(f.role_keyword.s)))

Flagged(jobs, relaxed) == [i \in DOMAIN jobs |-> [job |-> jobs[i], relaxed |-> relaxed]]

\* the ten best recent jobs in ranking order, each flagged by the filters
FinalJobs_RankingOrder(recent_jobs, jobs_table, f) ==
    LET top == SubSeq(recent_jobs, 1, Min(TARGET_TOTAL, Len(recent_jobs)))
    IN [i \in DOMAIN top |->
           [job |-> top[i],
            relaxed |-> has_filters(f)
                           /\ ~passes_filters(JobMeta(jobs_table, top[i].job_id), f)]]

\* lines 228-272: final_job_ids with final_relaxed_flags.  The comparison
\* with MIN_STRICT at line 252 guards a log message only.
FinalJobs(recent_jobs, jobs_table, f) ==
    LET strict_matches ==
            SelectSeq(recent_jobs,
                      LAMBDA c : passes_filters(JobMeta(jobs_table, c.job_id), f))
        relaxed_matches ==
            SelectSeq(recent_jobs,
                      LAMBDA c : ~passes_filters(JobMeta(jobs_table, c.job_id), f))
        final_jobs == SubSeq(strict_matches, 1, Min(TARGET_TOTAL, Len(strict_matches)))
    IN IF ~has_filters(f)
       THEN Flagged(SubSeq(recent_jobs, 1, Min(NO_FILTER_TOTAL, Len(recent_jobs))), FALSE)
       ELSE IF Len(final_jobs) < TARGET_TOTAL /\ relaxed_matches # << >>
            THEN Flagged(final_jobs, FALSE)
                 \o Flagged(SubSeq(relaxed_matches, 1,
                                   Min(TARGET_TOTAL - Len(final_jobs),
                                       Len(relaxed_matches))), TRUE)
            ELSE Flagged(final_jobs, FALSE)

\* round(similarity, 4), in units of 0.0001
Round4(sim) ==
    LET q == sim \div 10
        r == sim % 10
    IN IF r < 5 THEN q
       ELSE IF r > 5 THEN q + 1
            ELSE IF q % 2 = 0 THEN q ELSE q + 1

\* lines 278-302
JobMatch(final, jobs_table) ==
    LET meta == JobMeta(jobs_table, final.job.job_id)
    IN [job_id |-> final.job.job_id,
        title |-> meta.actual_role,
        similarity |-> Round4(final.job.similarity),
        country |-> meta.country,
        posted_date |-> meta.posted_date,
        is_remote |-> meta.is_remote,
        relaxed_criteria |-> Bool(final.relaxed)]

CV_ID == Str(<<"c","v","-","1">>)

CVMatchResponse(cv_id, matches) == [raised |-> FALSE, cv_id |-> cv_id, matches |-> matches]
MatchRaised(step) == [raised |-> TRUE, step |-> step]

\* lines 130-329: the outcome of match_cv; fails names the call that raises
match_cv(f, chunk_rows, jobs_table, today, fails) ==
    LET all_jobs_sorted == SortedBySimilarityDesc(BestByJob(chunk_rows, << >>))
        candidates == Candidates(all_jobs_sorted)
        recent_jobs == RecentJobs(candidates, jobs_table, today)
        final == FinalJobs(recent_jobs, jobs_table, f)
    IN IF fails \in {"embed_text", "insert_cv", "match_job_chunks"}
       THEN MatchRaised(fails)
       ELSE IF all_jobs_sorted = << >>
            THEN IF fails = "update_matches" THEN MatchRaised(fails)
                 ELSE CVMatchResponse(CV_ID, << >>)
            ELSE IF fails \in {"jobs", "update_matches"}
                 THEN MatchRaised(fails)
                 ELSE CVMatchResponse(CV_ID,
                          [i \in DOMAIN final |-> JobMatch(final[i], jobs_table)])

(***************************************************************************)
(* SpecMatch: one call of match_cv.  The vector search returns one chunk   *)
(* for each job of a ranking, the k-th job of the ranking with the k-th    *)
(* highest similarity, a second, weaker chunk for the first job and a      *)
(* chunk without job_id.  Jobs are of four kinds: "strict" and "relaxed"   *)
(* are recent, "old" was posted before the cutoff, "ghost" has no row in   *)
(* the jobs table.                                                         *)
(***************************************************************************)
Today == 100

C_FR == <<"F","r","a","n","c","e">>
ROLE_ENGINEER == <<"D","a","t","a"," ","E","n","g","i","n","e","e","r">>
ROLE_NURSE == <<"N","u","r","s","e">>
KW_ENGINEER == <<"e","n","g","i","n","e","e","r">>

JobId(k) == Str(<<"j", DECIMALS[(k \div 10) + 1], DECIMALS[(k % 10) + 1]>>)
SimilarityOf(k) == 90002 - 130 * k

\* the row of the jobs table for the k-th job of the ranking
JobRow(k, kind) ==
    [job_id |-> JobId(k),
     actual_role |-> Str(IF kind = "relaxed" THEN ROLE_NURSE ELSE ROLE_ENGINEER),
     country |-> Str(IF kind = "relaxed" THEN C_FR ELSE C_DE),
     posted_date |-> IF kind = "old" THEN Num(Today - RECENCY_DAYS - 1)
                     ELSE IF k % 4 = 0 THEN None
                          ELSE IF k % 4 = 1 THEN Num(Today - RECENCY_DAYS)
                               ELSE Num(Today - 3),
     job_level_std |-> None,
     job_function_std |-> None,
     platform |-> Str(<<"l","i","n","k","e","d","i","n">>),
     is_remote |-> Bool(kind # "relaxed")]

MatchStrictCounts == {0, 3, 4, 5, 7, 10, 11}
MatchRelaxedCounts == {0, 3, 20}
MatchLayouts == {"strict_first", "relaxed_first", "alternate"}
MatchExtras == {<< >>, <<"old", "ghost", "old">>}

\* the kinds of S strict and R relaxed jobs, in ranking order
Ranking(S, R, layout) ==
    IF layout = "strict_first"
    THEN [k \in 1..(S + R) |-> IF k <= S THEN "strict" ELSE "relaxed"]
    ELSE IF layout = "relaxed_first"
         THEN [k \in 1..(S + R) |-> IF k <= R THEN "relaxed" ELSE "strict"]
         ELSE [k \in 1..(S + R) |->
                  IF k <= 2 * Min(S, R)
                  THEN (IF k % 2 = 1 THEN "relaxed" ELSE "strict")
                  ELSE (IF S > R THEN "strict" ELSE "relaxed")]

MatchRankings ==
    {extra \o Ranking(S, R, layout) :
        extra \in MatchExtras, S \in MatchStrictCounts,
        R \in MatchRelaxedCounts, layout \in MatchLayouts}

ChunkRows(ranking) ==
    LET chunks == [k \in DOMAIN ranking |->
                      [job_id |-> JobId(k), similarity |-> SimilarityOf(k)]]
    IN IF ranking = << >> THEN << [job_id |-> None, similarity |-> 99999] >>
       ELSE << [job_id |-> JobId(1), similarity |-> 10002],
               [job_id |-> None, similarity |-> 99999] >> \o chunks

JobsTable(ranking) ==
    LET held == SelectSeq([k \in DOMAIN ranking |-> k],
                          LAMBDA k : ranking[k] # "ghost")
    IN [i \in DOMAIN held |-> JobRow(held[i], ranking[held[i]])]

NoFilters ==
    [countries |-> List(<< >>), job_levels |-> List(<< >>),
     job_functions |-> List(<< >>), platforms |-> List(<< >>),
     is_remote |-> None, role_keyword |-> Str(<< >>)]

MatchFilters ==
    { NoFilters,
      [NoFilters EXCEPT !.countries = List(<<Str(C_DE)>>)],
      [NoFilters EXCEPT !.is_remote = Bool(TRUE), !.role_keyword = Str(KW_ENGINEER)] }

MatchFailures ==
    {"none", "embed_text", "insert_cv", "match_job_chunks", "jobs", "update_matches"}

MatchCalls ==
    {[fn |-> "match_cv", filters |-> f, ranking |-> r, reversed |-> rev,
      chunk_rows |-> IF rev THEN Reversed(ChunkRows(r)) ELSE ChunkRows(r),
      jobs_table |-> JobsTable(r), fails |-> x, out |-> None] :
        f \in MatchFilters, r \in MatchRankings, rev \in BOOLEAN, x \in MatchFailures}

InitMatch == HandlerAtRest /\ call \in MatchCalls

MatchCV ==
    /\ call.fn = "match_cv"
    /\ call.out = None
    /\ call' = [call EXCEPT !.out = match_cv(call.filters, call.chunk_rows,
                                             call.jobs_table, Today, call.fails)]
    /\ UNCHANGED << _MEMORY, pc, request, locals, response, trace >>

NextMatch == MatchCV

SpecMatch == InitMatch /\ [][NextMatch]_vars

(***************************************************************************)
(* SpecFetch: _paginated_fetch (joblab_tools.py:121-150), one action for    *)
(* each pass of its loop.  The upstream holds `total` matching rows,       *)
(* numbered from 1, and answers a request with the rows offset+1 ..        *)
(* offset+limit that it holds, or with an error status.  A page, and so    *)
(* all_rows, is written as the ranges of row numbers it holds.             *)
(***************************************************************************)
max_rows_OnePageMore == 15000 + 1000
page_size == 1000
max_rows == 15000

\* resp.json() for the request with this limit and offset
UpstreamPage(total, limit, offset) ==
    IF offset >= total THEN [first |-> offset + 1, count |-> 0]
    ELSE [first |-> offset + 1, count |-> Min(limit, total - offset)]

FetchTotals ==
    {0, 1, 999, 1000, 1001, 2000, 2500, 7000, 13999, 14000, 14001, 14999,
     15000, 15001, 16000, 40000}

FetchCalls ==
    {[fn |-> "_paginated_fetch", total |-> n, status |-> "loop", offset |-> 0,
      all_rows |-> << >>, requests |-> << >>] : n \in FetchTotals}

InitFetch == HandlerAtRest /\ call \in FetchCalls

\* lines 139-148: one pass of the loop, the request answered
FetchPage ==
    /\ call.fn = "_paginated_fetch"
    /\ call.status = "loop"
    /\ call.offset < max_rows
    /\ LET page == UpstreamPage(call.total, page_size, call.offset)
           sent == Append(call.requests,
                          [limit |-> page_size, offset |-> call.offset,
                           returned |-> page.count])
       IN call' =
            IF page.count = 0
            THEN [call EXCEPT !.requests = sent, !.status = "returned"]
            ELSE IF page.count < page_size
                 THEN [call EXCEPT !.requests = sent, !.status = "returned",
                                   !.all_rows = Append(@, page)]
                 ELSE [call EXCEPT !.requests = sent,
                                   !.all_rows = Append(@, page),
                                   !.offset = @ + page_size]
    /\ UNCHANGED << _MEMORY, pc, request, locals, response, trace >>

\* lines 140-141: the request is sent and raise_for_status() raises
FetchRaises ==
    /\ call.fn = "_paginated_fetch"
    /\ call.status = "loop"
    /\ call.offset < max_rows
    /\ call' = [call EXCEPT
                   !.requests = Append(@, [limit |-> page_size,
                                           offset |-> call.offset,
                                           returned |-> 0]),
                   !.status = "raised"]
    /\ UNCHANGED << _MEMORY, pc, request, locals, response, trace >>

\* lines 138, 150: the loop condition fails and all_rows is returned
FetchReturn ==
    /\ call.fn = "_paginated_fetch"
    /\ call.status = "loop"
    /\ ~(call.offset < max_rows)
    /\ call' = [call EXCEPT !.status = "returned"]
    /\ UNCHANGED << _MEMORY, pc, request, locals, response, trace >>

NextFetch == FetchPage \/ FetchRaises \/ FetchReturn

SpecFetch == InitFetch /\ [][NextFetch]_vars

(***************************************************************************)
(* SpecFollowup: the expansion of one pending follow-up (ai.py:409-429):   *)
(* _build_followup_args on the stored tool call, then the executor of the  *)
(* derived call.  Dicts are objects of a heap, so that a copy and the      *)
(* stored dict are told apart.                                             *)
(***************************************************************************)
PLATFORM_LI == <<"l","i","n","k","e","d","i","n">>

WithOptional(dicts, k, values) == dicts \cup {Put(d, k, v) : d \in dicts, v \in values}

FollowupSearchArgs ==
    WithOptional(
     WithOptional(
      WithOptional(
       WithOptional(
        WithOptional(
         WithOptional({EmptyDict}, "country", {Str(C_DE), None}),
         "is_research", {Bool(TRUE)}),
        "posted_start", {Str(D_OK)}),
       "limit", {Num(5)}),
      "role_keyword", {Str(KW_ENGINEER)}),
     "platform", {Str(PLATFORM_LI)})

FollowupStatsArgs ==
    WithOptional(
     WithOptional(
      WithOptional({[metric |-> Str("count"), group_by |-> Str("country")]},
                   "country", {Str(C_DE)}),
      "is_remote", {Bool(FALSE)}),
     "posted_end", {Str(D_OK)})

FollowupSemanticArgs ==
    WithOptional(
     WithOptional({[query_text |-> Str(Q_NLP)]}, "top_k", {Num(3)}),
     "country", {Str(C_DE)})

FollowupCalls ==
    {[fn |-> "_build_followup_args", tool_name |-> Str("search_jobs"),
      heap |-> <<a>>, tool_args |-> 1, out |-> None] : a \in FollowupSearchArgs}
        \cup
    {[fn |-> "_build_followup_args", tool_name |-> Str("job_stats"),
      heap |-> <<a>>, tool_args |-> 1, out |-> None] : a \in FollowupStatsArgs}
        \cup
    {[fn |-> "_build_followup_args", tool_name |-> n,
      heap |-> <<a>>, tool_args |-> 1, out |-> None] :
        n \in {Str("semantic_search_jobs"), UNKNOWN_TOOL}, a \in FollowupSemanticArgs}

\* a fallback that writes the listing limit into the stored dict and returns it
BuildFollowupArgsCall_LimitInPlace(heap, tool_args, tool_name) ==
    IF tool_name \in {Str("job_stats"), Str("search_jobs")}
    THEN [heap |-> Append(heap, _build_followup_args(tool_name, heap[tool_args])[2]),
          name |-> _build_followup_args(tool_name, heap[tool_args])[1],
          ref |-> Len(heap) + 1]
    ELSE [heap |-> [heap EXCEPT ![tool_args] = Put(@, "limit", Num(FOLLOWUP_LIMIT))],
          name |-> tool_name,
          ref |-> tool_args]

\* ai.py:333-371: each branch returns a new dict (new_args, or dict(tool_args))
BuildFollowupArgsCall(heap, tool_args, tool_name) ==
    [heap |-> Append(heap, _build_followup_args(tool_name, heap[tool_args])[2]),
     name |-> _build_followup_args(tool_name, heap[tool_args])[1],
     ref |-> Len(heap) + 1]

InitFollowup == HandlerAtRest /\ call \in FollowupCalls

\* ai.py:409-429: the derived call is built, its executor looked up and run;
\* the executors read raw_input and write nothing to it
ExpandFollowup ==
    /\ call.fn = "_build_followup_args"
    /\ call.out = None
    /\ LET built == BuildFollowupArgsCall(call.heap, call.tool_args, call.tool_name)
       IN call' = [call EXCEPT !.out =
                     [heap |-> built.heap, name |-> built.name, ref |-> built.ref,
                      outcome |-> IF built.name \in TOOL_EXECUTORS
                                  THEN RunExecutor(built.name, built.heap[built.ref], "ok")
                                  ELSE None]]
    /\ UNCHANGED << _MEMORY, pc, request, locals, response, trace >>

NextFollowup == ExpandFollowup

SpecFollowup == InitFollowup /\ [][NextFollowup]_vars

(***************************************************************************)
(* The request handler with a completion service that may name only a tool *)
(* outside the registry in a reply.                                        *)
(***************************************************************************)
UnregisteredReplies ==
    { << ToolUseBlock(NoId, UNKNOWN_TOOL, EmptyDict) >>,
      << TextBlock(<<"Let me check.">>),
         ToolUseBlock(NoId, Str("job_stats"), STATS_ARGS) >> }

NextUnregistered ==
    \/ \E cid \in ConvKeys, p \in Prompts : Receive(cid, p)
    \/ Decline
    \/ \E upstream \in Upstream : FollowupExecute(upstream)
    \/ \E content \in TextReplies : FollowupSummarize(content)
    \/ FollowupSummarizeFails
    \/ BeginNormal
    \/ InvokeFails
    \/ \E content \in TextReplies : SoftEnforce(content)
    \/ \E content \in TextReplies : Refuse(content)
    \/ \E content \in TextReplies : Answer(content)
    \/ \E content \in UnregisteredReplies :
          \E upstream \in [1..Cardinality({i \in DOMAIN content :
                                              content[i].type = "tool_use"})
                           -> Upstream] :
             ToolRound(content, upstream)
    \/ Exhausted

SpecUnregistered == Init /\ [][NextUnregistered]_vars

(***************************************************************************)
(* SpecTasks: two requests in flight on one conversation key, at the level *)
(* of the statements of ask() that touch conversation memory.  ask() is a  *)
(* coroutine (ai.py:380) served by one event loop; the loop can switch to  *)
(* another request only where the running one awaits.  The round loop is   *)
(* reduced to the tool calls it stores.                                    *)
(***************************************************************************)
\* the event loop may switch requests after the statement stmt: the body of
\* ask() holds no await expression, and neither do the functions it calls
Yields_Preemptive(stmt) == TRUE

\* a variant in which the event loop may switch after the pending follow-up
\* was read
Yields_AfterRead(stmt) == stmt = "L394"

Yields(stmt) == FALSE

CALL_STATS == [name |-> Str("job_stats"), args |-> STATS_ARGS]
CALL_SEARCH == [name |-> Str("search_jobs"), args |-> SEARCH_ARGS]
CALL_SEMANTIC == [name |-> Str("semantic_search_jobs"), args |-> SEMANTIC_ARGS]

\* the registered tool calls a round loop stores, in order
TaskPlans == { << >>, <<CALL_STATS>>, <<CALL_SEARCH, CALL_SEMANTIC>> }
TaskPrompts == {P_YES, P_NO, P_LONG}

\* the memory a request that processed the call c and answered leaves behind
ArmedMemory(c) ==
    set_pending_followup(set_last_tool(EmptyDict, "A", c.name, c.args), "A",
                         PendingFollowup(c.name, c.args))

TaskMemories == {EmptyDict, ArmedMemory(CALL_SEMANTIC), ArmedMemory(CALL_STATS)}

\* who wrote a stored value: <<request, number of the write>>, <<0, 0>> for
\* what was stored before the two requests
Before == <<0, 0>>
\* the request resolved no pending follow-up
Nothing == <<-1, -1>>

NewTask(p, plan) ==
    [prompt |-> p, plan |-> plan, pc |-> "L394", pending |-> None, flow |-> "none",
     resolved |-> Nothing, executed |-> << >>, writing |-> None, after |-> "none",
     i |-> 1, writes |-> 0, name |-> None, name_by |-> None, read |-> None]

TaskCalls ==
    { [fn |-> "tasks", memory |-> M, running |-> 0,
       name_by |-> Before, args_by |-> Before, pending_by |-> Before,
       task |-> <<NewTask(p1, plan1), NewTask(p2, plan2)>>] :
        M \in TaskMemories, p1 \in TaskPrompts, p2 \in TaskPrompts,
        plan1 \in TaskPlans, plan2 \in TaskPlans }

InitTasks == HandlerAtRest /\ call \in TaskCalls

\* the event loop runs request t: it is the running one, or none is running
\* and t is not finished
Runs(t) ==
    /\ call.fn = "tasks"
    /\ \/ call.running = t
       \/ call.running = 0 /\ call.task[t].pc # "done"

\* the request that holds the event loop after t ran stmt and goes on at next
Holder(t, stmt, next) == IF next = "done" \/ Yields(stmt) THEN 0 ELSE t

\* ai.py:394-406: the pending follow-up is read and the flow is chosen
ReadPending(t) ==
    /\ Runs(t)
    /\ call.task[t].pc = "L394"
    /\ LET got == get_pending_followup(call.memory, "A")
           p == call.task[t].prompt
           next == IF Truthy(got) /\ _is_negative_followup(p) THEN "L397"
                   ELSE IF Truthy(got) /\ _is_affirmative_followup(p) THEN "L407"
                   ELSE "L480"
       IN call' = [call EXCEPT
                     !.task[t].pending = got,
                     !.task[t].resolved = IF next = "L480" THEN Nothing
                                          ELSE call.pending_by,
                     !.task[t].flow = IF next = "L397" THEN "decline"
                                      ELSE IF next = "L407" THEN "expand"
                                      ELSE "normal",
                     !.task[t].pc = next,
                     !.running = Holder(t, "L394", next)]
    /\ UNCHANGED << _MEMORY, pc, request, locals, response, trace >>

\* ai.py:397-404: the decline
ClearDecline(t) ==
    /\ Runs(t)
    /\ call.task[t].pc = "L397"
    /\ call' = [call EXCEPT
                  !.memory = clear_pending_followup(call.memory, "A"),
                  !.task[t].pc = "done",
                  !.running = Holder(t, "L397", "done")]
    /\ UNCHANGED << _MEMORY, pc, request, locals, response, trace >>

\* ai.py:407: the expansion starts by clearing the pending follow-up
ClearExpand(t) ==
    /\ Runs(t)
    /\ call.task[t].pc = "L407"
    /\ call' = [call EXCEPT
                  !.memory = clear_pending_followup(call.memory, "A"),
                  !.task[t].pc = "L429",
                  !.running = Holder(t, "L407", "L429")]
    /\ UNCHANGED << _MEMORY, pc, request, locals, response, trace >>

\* ai.py:409-442: the derived call is built and executed; after a successful
\* execution set_last_tool is entered
ExpandExecute(t, upstream) ==
    /\ Runs(t)
    /\ call.task[t].pc = "L429"
    /\ LET built == _build_followup_args(call.task[t].pending["tool_name"],
                                         call.task[t].pending["tool_args"])
           c == [name |-> built[1], args |-> built[2]]
           known == c.name \in TOOL_EXECUTORS
           out == RunExecutor(c.name, c.args, upstream)
           next == IF known /\ ~out.raised THEN "L26" ELSE "done"
       IN /\ ~known => upstream = "ok"
          /\ call' = [call EXCEPT
                        !.task[t].executed = IF known THEN Append(@, c) ELSE @,
                        !.task[t].writing = IF next = "L26" THEN c ELSE None,
                        !.task[t].after = IF next = "L26" THEN "L456" ELSE "none",
                        !.task[t].pc = next,
                        !.running = Holder(t, "L429", next)]
    /\ UNCHANGED << _MEMORY, pc, request, locals, response, trace >>

\* conversation_memory.py:25-26: set_last_tool stores the name
SetName(t) ==
    /\ Runs(t)
    /\ call.task[t].pc = "L26"
    /\ call' = [call EXCEPT
                  !.memory = Put(call.memory, "A",
                                 Put(MemoryOf(call.memory, "A"), "last_tool_name",
                                     call.task[t].writing.name)),
                  !.name_by = <<t, call.task[t].writes + 1>>,
                  !.task[t].pc = "L27",
                  !.running = Holder(t, "L26", "L27")]
    /\ UNCHANGED << _MEMORY, pc, request, locals, response, trace >>

\* conversation_memory.py:27: set_last_tool stores the arguments
SetArgs(t) ==
    /\ Runs(t)
    /\ call.task[t].pc = "L27"
    /\ call' = [call EXCEPT
                  !.memory = Put(call.memory, "A",
                                 Put(MemoryOf(call.memory, "A"), "last_tool_args",
                                     call.task[t].writing.args)),
                  !.args_by = <<t, call.task[t].writes + 1>>,
                  !.task[t].writes = @ + 1,
                  !.task[t].pc = call.task[t].after,
                  !.running = Holder(t, "L27", call.task[t].after)]
    /\ UNCHANGED << _MEMORY, pc, request, locals, response, trace >>

\* ai.py:444-456: the summarizing completion-service call returns
Summarize(t) ==
    /\ Runs(t)
    /\ call.task[t].pc = "L456"
    /\ call' = [call EXCEPT
                  !.task[t].pc = "L460",
                  !.running = Holder(t, "L456", "L460")]
    /\ UNCHANGED << _MEMORY, pc, request, locals, response, trace >>

\* ai.py:456 raises: the request ends with a server error
SummarizeFails(t) ==
    /\ Runs(t)
    /\ call.task[t].pc = "L456"
    /\ call' = [call EXCEPT
                  !.task[t].pc = "done",
                  !.running = Holder(t, "L456", "done")]
    /\ UNCHANGED << _MEMORY, pc, request, locals, response, trace >>

\* ai.py:460-472: the executed call is armed as the new pending follow-up
ArmExpanded(t) ==
    /\ Runs(t)
    /\ call.task[t].pc = "L460"
    /\ call' = [call EXCEPT
                  !.memory = set_pending_followup(call.memory, "A",
                                 PendingFollowup(call.task[t].writing.name,
                                                 call.task[t].writing.args)),
                  !.pending_by = <<t, 1>>,
                  !.task[t].pc = "done",
                  !.running = Holder(t, "L460", "done")]
    /\ UNCHANGED << _MEMORY, pc, request, locals, response, trace >>

\* ai.py:480, conversation_memory.py:32-33: get_last_tool reads the name
GetName(t) ==
    /\ Runs(t)
    /\ call.task[t].pc = "L480"
    /\ call' = [call EXCEPT
                  !.task[t].name = Get(MemoryOf(call.memory, "A"), "last_tool_name"),
                  !.task[t].name_by = call.name_by,
                  !.task[t].pc = "L33",
                  !.running = Holder(t, "L480", "L33")]
    /\ UNCHANGED << _MEMORY, pc, request, locals, response, trace >>

\* conversation_memory.py:33: get_last_tool reads the arguments and returns
GetArgs(t) ==
    /\ Runs(t)
    /\ call.task[t].pc = "L33"
    /\ call' = [call EXCEPT
                  !.task[t].read =
                      [name |-> call.task[t].name,
                       args |-> Get(MemoryOf(call.memory, "A"), "last_tool_args"),
                       name_by |-> call.task[t].name_by,
                       args_by |-> call.args_by],
                  !.task[t].pc = "L515",
                  !.running = Holder(t, "L33", "L515")]
    /\ UNCHANGED << _MEMORY, pc, request, locals, response, trace >>

\* ai.py:581-614: the round loop processes the next tool call and enters
\* set_last_tool
LoopCall(t) ==
    /\ Runs(t)
    /\ call.task[t].pc = "L515"
    /\ call.task[t].i <= Len(call.task[t].plan)
    /\ call' = [call EXCEPT
                  !.task[t].writing = call.task[t].plan[call.task[t].i],
                  !.task[t].after = "L515",
                  !.task[t].i = @ + 1,
                  !.task[t].pc = "L26",
                  !.running = Holder(t, "L581", "L26")]
    /\ UNCHANGED << _MEMORY, pc, request, locals, response, trace >>

\* ai.py:554-569: the text answer; after tool calls the last one is armed as
\* pending follow-up
LoopEnd(t) ==
    /\ Runs(t)
    /\ call.task[t].pc = "L515"
    /\ call.task[t].i > Len(call.task[t].plan)
    /\ LET plan == call.task[t].plan
       IN call' = [call EXCEPT
                     !.memory = IF plan = << >> THEN @
                                ELSE set_pending_followup(@, "A",
                                         PendingFollowup(plan[Len(plan)].name,
                                                         plan[Len(plan)].args)),
                     !.pending_by = IF plan = << >> THEN @ ELSE <<t, 1>>,
                     !.task[t].pc = "done",
                     !.running = Holder(t, "L554", "done")]
    /\ UNCHANGED << _MEMORY, pc, request, locals, response, trace >>

NextTasks ==
    \E t \in 1..2 :
        \/ ReadPending(t)
        \/ ClearDecline(t)
        \/ ClearExpand(t)
        \/ \E upstream \in Upstream : ExpandExecute(t, upstream)
        \/ SetName(t)
        \/ SetArgs(t)
        \/ Summarize(t)
        \/ SummarizeFails(t)
        \/ ArmExpanded(t)
        \/ GetName(t)
        \/ GetArgs(t)
        \/ LoopCall(t)
        \/ LoopEnd(t)

SpecTasks == InitTasks /\ [][NextTasks]_vars

(***************************************************************************)
(* Properties of the request handler                                       *)
(***************************************************************************)
\* the events of one kind, in order
EventsOf(tr, ev) == SelectSeq(tr, LAMBDA e : e.ev = ev)
Invokes == EventsOf(trace, "invoke_claude")
Executes == EventsOf(trace, "execute")
LastToolWrites == EventsOf(trace, "set_last_tool")

\* the request being served took the normal flow (it was neither a decline nor
\* an expansion of the pending follow-up)
NormalFlow == messages # << >> /\ messages[1].kind # "followup_summary"

\* the memory of the conversation when the request arrived
StartPending == get_pending_followup(memory_at_start, conversation_id)
StartLastTool == get_last_tool(memory_at_start, conversation_id)
NowPending == get_pending_followup(_MEMORY, conversation_id)
NowLastTool == get_last_tool(_MEMORY, conversation_id)

\* the tool invocations of all replies of the request, in order
RECURSIVE InvocationsOf(_)
InvocationsOf(msgs) ==
    IF msgs = << >> THEN << >>
    ELSE (IF Head(msgs).kind = "assistant"
          THEN SelectSeq(Head(msgs).content, IsToolUse) ELSE << >>)
         \o InvocationsOf(Tail(msgs))

\* the tool results of the request, in order
RECURSIVE ResultsOf(_)
ResultsOf(msgs) ==
    IF msgs = << >> THEN << >>
    ELSE (IF Head(msgs).kind = "tool_results" THEN Head(msgs).content ELSE << >>)
         \o ResultsOf(Tail(msgs))

\* the text of the last reply
LastReplyText ==
    LET a == SelectSeq(messages, LAMBDA m : m.kind = "assistant")
    IN IF a = << >> THEN << >> ELSE JoinText(a[Len(a)].content)

\* a call as tool_calls lists it
Listed(name, input) == [name |-> name, input |-> input]

\* a request fails with status 500 only when its last step was a
\* completion-service call that raised
ServerErrorOnlyFromInvoke ==
    (pc = "done" /\ response.status = 500) =>
        /\ trace # << >>
        /\ trace[Len(trace)].ev = "invoke_claude"
        /\ trace[Len(trace)].raised

\* C1: in the normal flow a request makes at most 5 completion-service calls;
\* when every round's reply carried a tool invocation the request ends after
\* the 5th round, with status 200, the text of the last reply (the fixed
\* 'unable' message when that text is empty) and every collected tool call.
C1_RoundLoopTermination ==
    /\ NormalFlow => Len(Invokes) <= 5 /\ round <= 5
    /\ (NormalFlow /\ ToolRoundCount(messages) = 5) =>
          /\ pc \in {"loop", "done"}
          /\ pc = "loop" => ENABLED Exhausted
          /\ pc = "done" =>
                /\ response.status = 200
                /\ response.answer = (IF LastReplyText = << >> THEN UNABLE_ANSWER
                                      ELSE LastReplyText)
                /\ response.tool_calls # None
                /\ LET inv == InvocationsOf(messages)
                       got == response.tool_calls.l
                   IN /\ Len(got) = Len(inv)
                      /\ \A i \in DOMAIN inv :
                            got[i] = Listed(inv[i].name,
                                       _enforce_prompt_filters(inv[i].name,
                                                               inv[i].input, prompt))

\* a request that used up its five rounds and returned the 'unable' message
C1_Witness ==
    /\ pc = "done"
    /\ NormalFlow
    /\ ToolRoundCount(messages) = 5
    /\ response.answer = UNABLE_ANSWER
    /\ Len(response.tool_calls.l) = 10

\* C2: when the conversation holds a pending follow-up and the prompt,
\* trimmed, lower-cased and with trailing '!.,?' stripped, is a phrase of the
\* negative set, the request clears the pending follow-up, returns the decline
\* acknowledgment with no tool_calls, executes no tool, makes no
\* completion-service call and leaves the last tool name/args as they were.
C2_DeclinePendingFollowup ==
    (/\ pc \notin {"idle", "resolve"}
     /\ Truthy(StartPending)
     /\ NormalizeFollowup(prompt) \in Range(_NEGATIVE_PATTERNS)) =>
        /\ pc = "done"
        /\ response = AskResponse(DECLINE_ANSWER, None)
        /\ Executes = << >>
        /\ Invokes = << >>
        /\ NowPending = None
        /\ NowLastTool = StartLastTool

\* a declined follow-up: "  No!" sent while a follow-up was pending
C2_Witness ==
    /\ pc = "done"
    /\ Truthy(StartPending)
    /\ prompt = P_NO
    /\ response.answer = DECLINE_ANSWER
    /\ NowPending = None
    /\ StartLastTool[1] # None

\* the prompt, with case ignored and trailing punctuation stripped, is a
\* phrase of the affirmative set while the pending follow-up names job_stats
AffirmsCountQuery ==
    /\ pc \notin {"idle", "resolve"}
    /\ Truthy(StartPending)
    /\ StartPending.tool_name = Str("job_stats")
    /\ NormalizeFollowup(prompt) \in Range(_AFFIRMATIVE_PATTERNS)

\* args is the listing query for the count query prior: the six filters of
\* prior (an unset filter stays unset) and limit = 20, nothing else
IsListingOf(args, prior) ==
    /\ DOMAIN args \subseteq
          {"country", "is_remote", "is_research", "job_type_filled",
           "posted_start", "posted_end", "limit"}
    /\ \A k \in {"country", "is_remote", "is_research", "job_type_filled",
                 "posted_start", "posted_end"} : Get(args, k) = Get(prior, k)
    /\ Get(args, "limit") = Num(20)

\* the one tool executed by the request is search_jobs with the listing query
ExecutesListing ==
    /\ Len(Executes) = 1
    /\ Executes[1].name = Str("search_jobs")
    /\ IsListingOf(Executes[1].input, StartPending.tool_args)

\* C3 as stated: an affirmative prompt on a pending job_stats follow-up
\* executes search_jobs with the same filters and limit = 20, and after the
\* request a new pending follow-up referencing that search_jobs call is armed.
C3_AsStated ==
    (AffirmsCountQuery /\ pc = "done") =>
        /\ ExecutesListing
        /\ NowPending = PendingFollowup(Str("search_jobs"), Executes[1].input)

\* C3, amended: an affirmative prompt on a pending job_stats follow-up executes
\* search_jobs with the same filters and limit = 20; when that execution and
\* the summarizing completion-service call both succeed, the new pending
\* follow-up referencing that search_jobs call is armed after the request,
\* and otherwise the conversation is left without a pending follow-up.
C3_AffirmativeExpansion ==
    AffirmsCountQuery =>
        /\ pc \in {"summarize", "done"}
        /\ ExecutesListing
        /\ pc = "done" =>
              IF response.status = 200 /\ ~Executes[1].raised
              THEN NowPending = PendingFollowup(Str("search_jobs"), Executes[1].input)
              ELSE NowPending = None

\* "Yes." after a count of the jobs in Germany: the listing of those jobs was
\* executed and summarized, and the listing is the new pending follow-up
C3_Witness ==
    /\ pc = "done"
    /\ AffirmsCountQuery
    /\ prompt = P_YES
    /\ Get(StartPending.tool_args, "country") = Str(C_DE)
    /\ response.status = 200
    /\ Len(Invokes) = 1
    /\ NowPending = PendingFollowup(Str("search_jobs"), Executes[1].input)

\* the nudge follows each of the first n replies, and nothing else was added
NudgedAfterEach(n) ==
    /\ Len(messages) = 1 + 2 * n
    /\ \A i \in 1..n :
          /\ messages[2 * i].kind = "assistant"
          /\ messages[2 * i + 1] =
                [role |-> "user", kind |-> "nudge", content |-> NUDGE]

\* C4: for a prompt classified database-related, when no reply carries a tool
\* invocation, the nudge is appended after each of the first 2 replies, the
\* request makes exactly 3 completion-service calls and returns the fixed
\* refusal text with status 200 and no tool_calls; memory stays as it was.
C4_SoftEnforcementRefusal ==
    (/\ NormalFlow
     /\ db_related_prompt
     /\ ToolRoundCount(messages) = 0
     /\ \A i \in DOMAIN Invokes : ~Invokes[i].raised) =>
        /\ _MEMORY = memory_at_start
        /\ pc = "loop" => Len(Invokes) <= 2 /\ NudgedAfterEach(Len(Invokes))
        /\ pc = "done" =>
              /\ Len(Invokes) = 3
              /\ NudgedAfterEach(2)
              /\ response = AskResponse(REFUSAL_ANSWER, None)

\* a refused request in a conversation whose memory is not empty
C4_Witness ==
    /\ pc = "done"
    /\ NormalFlow
    /\ db_related_prompt
    /\ response.answer = REFUSAL_ANSWER
    /\ Len(Invokes) = 3
    /\ _MEMORY # EmptyDict
    /\ _MEMORY = memory_at_start

\* C5 as stated: a normal-flow request that executed at least one tool call
\* and ends in a text answer leaves as pending follow-up the last executed
\* call, with its reconciled arguments.
C5_AsStated ==
    (pc = "done" /\ NormalFlow /\ response.status = 200 /\ Executes # << >>) =>
        NowPending = PendingFollowup(Executes[Len(Executes)].name,
                                     Executes[Len(Executes)].input)

\* C6 as stated: tool_calls lists exactly the calls run by a registered
\* executor during the request, in execution order, with the arguments they
\* were run with.
C6_AsStated ==
    (pc = "done" /\ response.status = 200) =>
        response.tool_calls =
            OrNone([i \in DOMAIN Executes |->
                      Listed(Executes[i].name, Executes[i].input)])

\* the results of the round that ends with messages[m] answer the invocations
\* of the reply messages[m - 1] one for one, each under its invocation's id
AnswersEachInvocation(m) ==
    LET calls == SelectSeq(messages[m - 1].content, IsToolUse)
        results == messages[m].content
    IN /\ Len(results) = Len(calls)
       /\ \A j \in DOMAIN calls :
             /\ results[j].type = "tool_result"
             /\ results[j].tool_use_id = calls[j].id

\* the invocations of the request that name a registered tool, in order
KnownInvocations ==
    SelectSeq(InvocationsOf(messages), LAMBDA tc : tc.name \in TOOL_EXECUTORS)

\* the k-th completion-service call of the normal flow carries the first
\* message and the replies and results of the k - 1 rounds before it
CarriesEarlierRounds == \A k \in DOMAIN Invokes : Invokes[k].nmsgs = 2 * k - 1

\* C7: a reply naming a tool outside the executor registry does not abort the
\* request: that invocation is answered, under its id, with the error
\* 'Unknown tool: <name>', the other invocations of the reply are processed
\* (each registered one is executed), the results are part of what the next
\* completion-service call carries, and the request can only fail with
\* status 500 through a completion-service call that raises.
C7_UnknownTool ==
    NormalFlow =>
        /\ \A m \in DOMAIN messages :
              messages[m].kind = "tool_results" =>
                  /\ AnswersEachInvocation(m)
                  /\ \A j \in DOMAIN messages[m].content :
                        LET tc == SelectSeq(messages[m - 1].content, IsToolUse)[j]
                        IN tc.name \notin TOOL_EXECUTORS =>
                              messages[m].content[j].content =
                                  [error |-> <<"Unknown tool: ", tc.name.s>>]
        /\ Len(Executes) = Len(KnownInvocations)
        /\ CarriesEarlierRounds
        /\ ServerErrorOnlyFromInvoke
        /\ (pc = "loop" /\ round < 5) => ENABLED InvokeFails

\* an unknown tool came first in a reply, the two invocations after it were
\* executed, and the next completion-service call was made
C7_Witness ==
    /\ NormalFlow
    /\ Len(messages) >= 3
    /\ messages[3].kind = "tool_results"
    /\ messages[3].content[1].content = [error |-> <<"Unknown tool: ", "delete_jobs">>]
    /\ Len(messages[3].content) = 3
    /\ Len(Executes) >= 2
    /\ Executes[1].name = Str("job_stats")
    /\ Executes[2].name = Str("semantic_search_jobs")
    /\ Len(Invokes) >= 2
    /\ Invokes[2].nmsgs = 3

\* the tool result r reports an unknown tool
IsUnknownToolError(r) ==
    "error" \in DOMAIN r.content /\ Head(r.content.error) = "Unknown tool: "

\* C8: an executor that raises (validation or data-store error) is caught for
\* its call only: that call is answered with the error 'Tool execution
\* failed: <exception>', every registered invocation of the reply, the later
\* ones included, is executed, the next completion-service call carries the
\* results, and the request never ends with status 500 because of it.
C8_ToolExecutionFailure ==
    NormalFlow =>
        LET known == KnownInvocations
            results == ResultsOf(messages)
            answered == SelectSeq(results, LAMBDA r : ~IsUnknownToolError(r))
        IN /\ Len(Executes) = Len(known)
           /\ Len(answered) = Len(known)
           /\ \A i \in DOMAIN Executes :
                 /\ Executes[i].name = known[i].name
                 /\ answered[i].tool_use_id = known[i].id
                 /\ answered[i].content =
                       (IF Executes[i].raised
                        THEN [error |-> <<"Tool execution failed: ">> \o Executes[i].exc]
                        ELSE [data |-> Str("rows")])
           /\ (pc = "done" /\ response.status = 500) =>
                 /\ Invokes # << >>
                 /\ Invokes[Len(Invokes)].raised
                 /\ trace[Len(trace)] = Invokes[Len(Invokes)]
           /\ \A k \in DOMAIN Invokes : Invokes[k].nmsgs = 2 * k - 1
           /\ (pc = "loop" /\ round < 5) => ENABLED InvokeFails

\* job_stats raised on its input, the semantic search after it in the same
\* reply was executed, the next completion-service call was made and the
\* request ended with status 200
C8_Witness ==
    /\ NormalFlow
    /\ pc = "done"
    /\ response.status = 200
    /\ Len(Executes) >= 2
    /\ Executes[1].raised
    /\ Executes[1].exc = VALIDATION_ERROR
    /\ Executes[2].name = Str("semantic_search_jobs")
    /\ ~Executes[2].raised
    /\ Len(Invokes) >= 2

\* C9: when a completion-service call of the round loop raises, the request
\* ends with status 500 and that call is the last thing the request did (no
\* retry); the last tool of the conversation is the one written by the last
\* executed call of the earlier rounds (what it was before the request when
\* there was none), and the pending follow-up is what it was before the
\* request.
C9_OrchestrationFailure ==
    (NormalFlow /\ \E i \in DOMAIN trace :
                       trace[i].ev = "invoke_claude" /\ trace[i].raised) =>
        /\ pc = "done"
        /\ response.status = 500
        /\ \A i \in DOMAIN trace :
              (trace[i].ev = "invoke_claude" /\ trace[i].raised) => i = Len(trace)
        /\ NowLastTool =
              (IF LastToolWrites = << >> THEN StartLastTool
               ELSE << LastToolWrites[Len(LastToolWrites)].name,
                       LastToolWrites[Len(LastToolWrites)].args >>)
        /\ NowPending = StartPending

\* the completion-service call of round 2 raised: the last tool written in
\* round 1 is in memory, differs from the one before the request, and the
\* pending follow-up of the conversation is still the earlier one
C9_Witness ==
    /\ pc = "done"
    /\ NormalFlow
    /\ response.status = 500
    /\ Len(Invokes) = 2
    /\ LastToolWrites # << >>
    /\ NowLastTool # StartLastTool
    /\ Truthy(StartPending)
    /\ NowPending = StartPending

(***************************************************************************)
(* Properties of one executor call                                         *)
(***************************************************************************)
\* s is a date written YYYY-MM-DD
IsIsoDate(s) ==
    /\ Len(s) = 10
    /\ \A i \in {1, 2, 3, 4, 6, 7, 9, 10} : s[i] \in DIGITS
    /\ s[5] = "-"
    /\ s[8] = "-"

HasMalformedDate(input) ==
    \E k \in {"posted_start", "posted_end"} :
        Get(input, k) # None /\ ~IsIsoDate(input[k].s)

HasOversizedLimit(input) ==
    Get(input, "limit") # None /\ input["limit"].n > 100

OutsideWhitelist(input) ==
    \/ Get(input, "metric") # None /\ input["metric"].s \notin {"count"}
    \/ Get(input, "group_by") # None /\ input["group_by"].s \notin ALLOWED_GROUP_BY

\* C10 as stated: a call whose arguments hold a malformed date, a group_by or
\* metric outside the whitelist, or a limit above 100 is rejected by the
\* validator, and no data-store request is issued for it.
C10_AsStated ==
    (/\ call # None
     /\ call.out # None
     /\ \/ HasMalformedDate(call.input)
        \/ call.name = Str("job_stats") /\ OutsideWhitelist(call.input)
        \/ call.name = Str("search_jobs") /\ HasOversizedLimit(call.input)) =>
        /\ call.out.raised
        /\ call.out.exc = VALIDATION_ERROR
        /\ call.out.requests = << >>

\* the part of C10 about dates, as stated
C10_MalformedDateRejected ==
    (call # None /\ call.out # None /\ HasMalformedDate(call.input)) =>
        call.out.raised /\ call.out.requests = << >>

\* the part of C10 about the limit, as stated
C10_OversizedLimitRejected ==
    (/\ call # None
     /\ call.out # None
     /\ call.name = Str("search_jobs")
     /\ HasOversizedLimit(call.input)) =>
        call.out.raised /\ call.out.requests = << >>

\* the part of C10 about metric and group_by
C10_WhitelistEnforced ==
    (/\ call # None
     /\ call.out # None
     /\ call.name = Str("job_stats")
     /\ OutsideWhitelist(call.input)) =>
        /\ call.out.raised
        /\ call.out.exc = VALIDATION_ERROR
        /\ call.out.requests = << >>

(***************************************************************************)
(* Properties of one call of _enforce_prompt_filters                       *)
(***************************************************************************)
GuardrailDone ==
    call # None /\ call.fn = "_enforce_prompt_filters" /\ call.out # None

\* the proposed input and the adjusted input of the finished call
Proposed == call.heap[call.tool_input]
Adjusted == call.out.heap[call.out.ref]

\* the text, case ignored, holds the phrase
TextHas(text, phrase) == Contains(Lower(text), phrase)
TextNegatesResearch(text) ==
    \E ph \in {<<"n","o","n"," ","r","e","s","e","a","r","c","h">>,
               <<"n","o","n","-","r","e","s","e","a","r","c","h">>,
               <<"n","o","t"," ","r","e","s","e","a","r","c","h">>,
               <<"e","x","c","l","u","d","e"," ","r","e","s","e","a","r","c","h">>,
               <<"e","x","c","l","u","d","i","n","g"," ","r","e","s","e","a","r","c","h">>,
               <<"w","i","t","h","o","u","t"," ","r","e","s","e","a","r","c","h">>} :
        TextHas(text, ph)

\* C11: for search_jobs and job_stats, an input with is_research unset (null
\* or absent) gets is_research = false when the text holds a negated-research
\* phrase, and is_research = true when it holds 'research' without one; an
\* is_research the model set (true or false) stays whatever the text says.
C11_GuardrailReconciliation ==
    (GuardrailDone /\ call.tool_name \in {Str("search_jobs"), Str("job_stats")}) =>
        /\ (Get(Proposed, "is_research") = None /\ TextNegatesResearch(call.prompt))
              => Get(Adjusted, "is_research") = Bool(FALSE)
        /\ (/\ Get(Proposed, "is_research") = None
            /\ ~TextNegatesResearch(call.prompt)
            /\ TextHas(call.prompt, <<"r","e","s","e","a","r","c","h">>))
              => Get(Adjusted, "is_research") = Bool(TRUE)
        /\ Get(Proposed, "is_research") # None
              => Get(Adjusted, "is_research") = Get(Proposed, "is_research")

\* is_research: true proposed for 'Non-Research jobs' stayed true
C11_Witness ==
    /\ GuardrailDone
    /\ call.tool_name = Str("job_stats")
    /\ call.prompt = G_NON
    /\ Get(Proposed, "is_research") = Bool(TRUE)
    /\ Get(Adjusted, "is_research") = Bool(TRUE)

\* is_research: null proposed for 'Non-Research jobs' became false
C11_WitnessInjected ==
    /\ GuardrailDone
    /\ call.tool_name = Str("search_jobs")
    /\ call.prompt = G_NON
    /\ "is_research" \in DOMAIN Proposed
    /\ Proposed["is_research"] = None
    /\ Adjusted["is_research"] = Bool(FALSE)

\* C12: for a tool other than search_jobs and job_stats the adjusted input
\* equals the proposed one; for those two no key other than is_research is
\* added, removed or changed; in all cases the adjusted input is another
\* object than the proposed input, which is left as it was.
C12_GuardrailFrame ==
    GuardrailDone =>
        /\ call.tool_name \notin {Str("search_jobs"), Str("job_stats")}
              => Adjusted = Proposed
        /\ DOMAIN Adjusted \ {"is_research"} = DOMAIN Proposed \ {"is_research"}
        /\ \A k \in DOMAIN Proposed \ {"is_research"} : Adjusted[k] = Proposed[k]
        /\ call.out.ref # call.tool_input
        /\ call.out.heap[call.tool_input] = Proposed

\* a search_jobs input with other keys got is_research written: the other
\* keys are the same and the proposed input still has is_research null
C12_Witness ==
    /\ GuardrailDone
    /\ call.tool_name = Str("search_jobs")
    /\ call.prompt = G_RES
    /\ Proposed = [is_research |-> None, country |-> Str(C_DE), limit |-> Num(500)]
    /\ Adjusted = [is_research |-> Bool(TRUE), country |-> Str(C_DE),
                   limit |-> Num(500)]
    /\ call.out.heap[call.tool_input] = Proposed

(***************************************************************************)
(* Properties of the memory operations                                     *)
(***************************************************************************)
\* the pending follow-ups the memory of conversation c holds
PendingSlots(M, c) == {k \in DOMAIN MemoryOf(M, c) : k = "pending_followup"}

\* C13: every conversation holds at most one pending follow-up, which is one
\* follow-up record; set_pending_followup on a conversation that has one
\* replaces it by the new one, and after clear_pending_followup the
\* conversation has none.
C13_PendingUniqueness ==
    /\ \A c \in MemKeys :
          /\ Cardinality(PendingSlots(_MEMORY, c)) <= 1
          /\ get_pending_followup(_MEMORY, c) \in MemFollowups \cup {None}
    /\ call.fn = "set_pending_followup" =>
          get_pending_followup(_MEMORY, call.cid) = call.followup
    /\ call.fn = "clear_pending_followup" =>
          /\ get_pending_followup(_MEMORY, call.cid) = None
          /\ PendingSlots(_MEMORY, call.cid) = {}

\* a pending follow-up was set on a conversation that held another one
C13_Witness ==
    /\ call.fn = "set_pending_followup"
    /\ Truthy(get_pending_followup(memory_at_start, call.cid))
    /\ get_pending_followup(memory_at_start, call.cid) # call.followup
    /\ get_pending_followup(_MEMORY, call.cid) = call.followup

\* C14: whatever the order of the operations, an operation for one
\* conversation key leaves the last tool and the pending follow-up of every
\* other key as they were.
C14_ConversationIsolation ==
    \A c \in MemKeys \ {call.cid} :
        /\ get_last_tool(_MEMORY, c) = get_last_tool(memory_at_start, c)
        /\ get_pending_followup(_MEMORY, c) = get_pending_followup(memory_at_start, c)

\* the pending follow-up of A was cleared while B held a last tool and a
\* pending follow-up: A lost its own, B kept both
C14_Witness ==
    /\ call.fn = "clear_pending_followup"
    /\ call.cid = "A"
    /\ Truthy(get_pending_followup(memory_at_start, "A"))
    /\ get_pending_followup(_MEMORY, "A") = None
    /\ Truthy(get_pending_followup(_MEMORY, "B"))
    /\ get_last_tool(_MEMORY, "B")[1] = Str("search_jobs")
    /\ get_last_tool(_MEMORY, "A")[1] = Str("job_stats")

(***************************************************************************)
(* Properties of one aggregation by execute_job_stats (SpecStats)          *)
(***************************************************************************)
StatsDone == call.fn = "execute_job_stats" /\ call.out # None
Buckets == call.out.l
MonthlyMode == call.params["group_by"].s = "posted_month"

\* the rows that carry a month: a date of at least 7 characters, the fifth "-"
CarriesMonth(v) ==
    /\ v # None
    /\ Len(v.s) >= 7
    /\ v.s[5] = "-"

\* how many of the rows fall in the month m
RowsInMonth(rows, m) ==
    Cardinality({k \in DOMAIN rows :
                    CarriesMonth(rows[k]) /\ SubSeq(rows[k].s, 1, 7) = m})

Q1_2026 == << <<"2","0","2","6","-","0","1">>, <<"2","0","2","6","-","0","2">>,
              <<"2","0","2","6","-","0","3">> >>

\* the rows hold exactly counts[i] rows of the i-th month of Q1_2026
MonthlyCountsAre(counts) ==
    /\ \A i \in DOMAIN counts : RowsInMonth(call.rows, Q1_2026[i]) = counts[i]
    /\ \A k \in DOMAIN call.rows :
          CarriesMonth(call.rows[k]) /\
          \E i \in DOMAIN counts : SubSeq(call.rows[k].s, 1, 7) = Q1_2026[i]

DeltasOf(buckets) == [i \in DOMAIN buckets |-> buckets[i].delta_from_previous]
PercentChangesOf(buckets) == [i \in DOMAIN buckets |-> buckets[i].percent_change]

\* p hundredths is the nearest to delta / previous * 100
NearestPercent(p, delta, previous) ==
    LET off == p * previous - delta * 10000
    IN 2 * off <= previous /\ 2 * off >= 0 - previous

\* the part of C15 that holds for every aggregation: ascending months, a
\* first bucket without change, each later bucket compared with the one before
MonthlyChanges ==
    /\ \A i, j \in DOMAIN Buckets :
          i < j => StrLess(Buckets[i].value.s, Buckets[j].value.s)
    /\ \A i \in DOMAIN Buckets :
          IF i = 1
          THEN /\ Buckets[i].delta_from_previous = None
               /\ Buckets[i].percent_change = None
          ELSE /\ Buckets[i].delta_from_previous
                     = Num(Buckets[i].count.n - Buckets[i - 1].count.n)
               /\ IF Buckets[i - 1].count.n = 0
                  THEN Buckets[i].percent_change = None
                  ELSE /\ Buckets[i].percent_change # None
                       /\ NearestPercent(Buckets[i].percent_change.hundredths,
                                         Buckets[i].count.n - Buckets[i - 1].count.n,
                                         Buckets[i - 1].count.n)

\* C15 as stated: the monthly changes hold, and monthly counts [10, 15, 0]
\* give deltas [null, 5, -15] and percent_changes [null, 50.0, -100.0]
C15_AsStated ==
    (StatsDone /\ MonthlyMode) =>
        /\ MonthlyChanges
        /\ MonthlyCountsAre(<<10, 15, 0>>) =>
              /\ DeltasOf(Buckets) = <<None, Num(5), Num(0 - 15)>>
              /\ PercentChangesOf(Buckets)
                    = <<None, Float2(5000), Float2(0 - 10000)>>

\* C15, amended: in monthly mode the buckets are in ascending month order,
\* the first has null delta and null percent_change, every later one has
\* delta = count - previous count and percent_change = that delta as a
\* percentage of the previous count rounded to two places; a bucket counts
\* the rows of its month and a month without rows has no bucket, so no count
\* is zero and monthly counts [10, 15, 0] give deltas [null, 5] and
\* percent_changes [null, 50.0]
C15_MonthlyAggregation ==
    (StatsDone /\ MonthlyMode) =>
        /\ MonthlyChanges
        /\ \A i \in DOMAIN Buckets :
              /\ Buckets[i].count.n >= 1
              /\ Buckets[i].count.n = RowsInMonth(call.rows, Buckets[i].value.s)
        /\ \A k \in DOMAIN call.rows :
              CarriesMonth(call.rows[k]) =>
                 \E i \in DOMAIN Buckets :
                     Buckets[i].value.s = SubSeq(call.rows[k].s, 1, 7)
        /\ MonthlyCountsAre(<<10, 15, 0>>) =>
              /\ DeltasOf(Buckets) = <<None, Num(5)>>
              /\ PercentChangesOf(Buckets) = <<None, Float2(5000)>>

\* February's 15 rows come before January's 10, and the buckets are January,
\* February with a change of +5, +50.0 %
C15_Witness ==
    /\ StatsDone /\ MonthlyMode
    /\ MonthlyCountsAre(<<10, 15, 0>>)
    /\ call.rows[1] = M_FEB
    /\ Len(Buckets) = 2
    /\ Buckets[2].delta_from_previous = Num(5)
    /\ Buckets[2].percent_change = Float2(5000)

\* a falling series with skipped rows: 6, 4, 3 give -33.33 % and -25.0 %
C15_WitnessFalling ==
    /\ StatsDone /\ MonthlyMode
    /\ \E k \in DOMAIN call.rows : ~CarriesMonth(call.rows[k])
    /\ Len(Buckets) = 3
    /\ DeltasOf(Buckets) = <<None, Num(0 - 2), Num(0 - 1)>>
    /\ PercentChangesOf(Buckets) = <<None, Float2(0 - 3333), Float2(0 - 2500)>>

\* the dimension the rows are grouped by is also constrained by a filter
\* that _apply_common_filters adds to the query
GroupDimensionFiltered ==
    /\ call.params["group_by"].s \in {"country", "job_type_filled"}
    /\ StrFilterApplies(Get(call.params, call.params["group_by"].s))

\* C16: when job_stats groups by a dimension that an active filter also
\* constrains, the result is exactly one row {value: 'total', count: N} with
\* N the number of rows fetched
C16_TotalOnlyCollapse ==
    (StatsDone /\ GroupDimensionFiltered) =>
        Buckets = << [value |-> Str("total"), count |-> Num(Len(call.rows))] >>

\* group_by = country with country = 'Germany' on 37 fetched rows: count 37
C16_Witness ==
    /\ StatsDone
    /\ call.params["group_by"] = Str("country")
    /\ call.params["country"] = Str(C_DE)
    /\ Len(call.rows) = 37
    /\ Buckets = << [value |-> Str("total"), count |-> Num(37)] >>

\* group_by = job_type_filled with that filter set, on 80 rows of 40 values
C16_WitnessJobType ==
    /\ StatsDone
    /\ call.params["group_by"] = Str("job_type_filled")
    /\ call.params["job_type_filled"] # None
    /\ Len(call.rows) = 80
    /\ Buckets = << [value |-> Str("total"), count |-> Num(80)] >>

\* general grouped-count mode: neither monthly nor collapsed
GroupedMode == ~MonthlyMode /\ ~GroupDimensionFiltered

\* the group a row is counted in: its value, "Unknown" when it has none
GroupOf(v) ==
    IF v = None THEN <<"U","n","k","n","o","w","n">>
    ELSE IF Len(v.s) = 0 THEN <<"U","n","k","n","o","w","n">> ELSE v.s

GroupsFetched == {GroupOf(call.rows[k]) : k \in DOMAIN call.rows}
RowsInGroup(g) == Cardinality({k \in DOMAIN call.rows : GroupOf(call.rows[k]) = g})
FirstEncounter(g) ==
    CHOOSE k \in DOMAIN call.rows :
        /\ GroupOf(call.rows[k]) = g
        /\ \A j \in 1..(k - 1) : GroupOf(call.rows[j]) # g
Returned == {Buckets[i].value.s : i \in DOMAIN Buckets}

\* C17: in grouped-count mode the output has min(25, number of distinct
\* group values) rows, one for each returned group with the number of its
\* rows, sorted by count in non-increasing order, groups of equal count in
\* the order of their first encounter in the fetched rows, and every omitted
\* group has a count no larger than the smallest count returned
C17_GroupedTruncation ==
    (StatsDone /\ GroupedMode) =>
        /\ Len(Buckets) = Min(25, Cardinality(GroupsFetched))
        /\ \A i \in DOMAIN Buckets :
              /\ Buckets[i].value.s \in GroupsFetched
              /\ Buckets[i].count.n = RowsInGroup(Buckets[i].value.s)
        /\ \A i, j \in DOMAIN Buckets :
              i < j =>
                 /\ Buckets[i].value # Buckets[j].value
                 /\ Buckets[i].count.n >= Buckets[j].count.n
                 /\ Buckets[i].count.n = Buckets[j].count.n =>
                       FirstEncounter(Buckets[i].value.s)
                          < FirstEncounter(Buckets[j].value.s)
        /\ \A g \in GroupsFetched \ Returned :
              RowsInGroup(g) <= Buckets[Len(Buckets)].count.n

\* 40 distinct group values with counts 1, 2 and 3: 25 rows are returned,
\* with ties among them, and groups of count 1 are omitted
C17_Witness ==
    /\ StatsDone /\ GroupedMode
    /\ Cardinality(GroupsFetched) = 40
    /\ Len(Buckets) = 25
    /\ Buckets[1].count = Num(3)
    /\ Buckets[2].count = Num(3)
    /\ Buckets[25].count = Num(2)
    /\ \E g \in GroupsFetched \ Returned : RowsInGroup(g) = 2

\* rows without a value and rows with the value "Unknown" are one group
C17_WitnessUnknown ==
    /\ StatsDone /\ GroupedMode
    /\ \E k \in DOMAIN call.rows : call.rows[k] = None
    /\ \E k \in DOMAIN call.rows : call.rows[k] = Str(<<"U","n","k","n","o","w","n">>)
    /\ \E i \in DOMAIN Buckets :
          /\ Buckets[i].value = Str(<<"U","n","k","n","o","w","n">>)
          /\ Buckets[i].count = Num(3)

RECURSIVE SumOfCounts(_)
SumOfCounts(buckets) ==
    IF buckets = << >> THEN 0
    ELSE Head(buckets).count.n + SumOfCounts(Tail(buckets))

\* C18: in every mode of job_stats (monthly, total-only, grouped) every
\* returned count is non-negative and the returned counts sum to no more
\* than the number of rows fetched
C18_AggregationBound ==
    StatsDone =>
        /\ \A i \in DOMAIN Buckets : Buckets[i].count.n >= 0
        /\ SumOfCounts(Buckets) <= Len(call.rows)

\* grouped mode, truncated: 25 groups are returned for 80 rows and their
\* counts sum to less than 80
C18_Witness ==
    /\ StatsDone /\ GroupedMode
    /\ Len(call.rows) = 80
    /\ Len(Buckets) = 25
    /\ SumOfCounts(Buckets) = 63

\* monthly mode with skipped rows: 13 of 18 rows are counted
C18_WitnessMonthly ==
    /\ StatsDone /\ MonthlyMode
    /\ Len(call.rows) = 18
    /\ SumOfCounts(Buckets) = 13

\* total-only mode: the one count equals the number of rows
C18_WitnessTotal ==
    /\ StatsDone /\ GroupDimensionFiltered /\ ~MonthlyMode
    /\ Len(call.rows) = 26
    /\ SumOfCounts(Buckets) = 26

(***************************************************************************)
(* Properties of one call of match_cv (SpecMatch)                          *)
(***************************************************************************)
MatchDone == call.fn = "match_cv" /\ call.out # None /\ ~call.out.raised
Matches == call.out.matches
FiltersActive == call.filters # NoFilters

\* the jobs of one kind, by descending similarity
JobsOfKind(kind) ==
    LET at == SelectSeq([k \in DOMAIN call.ranking |-> k],
                        LAMBDA k : call.ranking[k] = kind)
    IN [i \in DOMAIN at |-> JobId(at[i])]

StrictCandidates == JobsOfKind("strict")
RelaxedCandidates == JobsOfKind("relaxed")

JobIdsOf(matches) == [i \in DOMAIN matches |-> matches[i].job_id]
RelaxedFlagsOf(matches) == [i \in DOMAIN matches |-> matches[i].relaxed_criteria.b]

\* C19: with user filters active, S < 5 strict candidates and R relaxed
\* candidates, the output is all S strict candidates flagged relaxed = false
\* followed by the min(10 - S, R) relaxed candidates of highest similarity
\* flagged relaxed = true
C19_RelaxationBelowThreshold ==
    (MatchDone /\ FiltersActive /\ Len(StrictCandidates) < 5) =>
        LET S == Len(StrictCandidates)
            added == Min(10 - S, Len(RelaxedCandidates))
        IN /\ JobIdsOf(Matches)
                 = StrictCandidates \o SubSeq(RelaxedCandidates, 1, added)
           /\ RelaxedFlagsOf(Matches) = [i \in 1..(S + added) |-> i > S]

\* 3 strict and 20 relaxed candidates, the relaxed ones ranked higher: the
\* output is the 3 strict followed by the 7 best relaxed
C19_Witness ==
    /\ MatchDone /\ FiltersActive
    /\ Len(StrictCandidates) = 3
    /\ Len(RelaxedCandidates) = 20
    /\ call.ranking[1] = "relaxed"
    /\ Len(Matches) = 10
    /\ RelaxedFlagsOf(Matches)
          = <<FALSE, FALSE, FALSE, TRUE, TRUE, TRUE, TRUE, TRUE, TRUE, TRUE>>
    /\ Matches[4].job_id = JobId(1)
    /\ Matches[1].job_id = JobId(21)

\* fewer relaxed candidates than the gap: 4 strict and 3 relaxed give 7
C19_WitnessShort ==
    /\ MatchDone /\ FiltersActive
    /\ Len(StrictCandidates) = 4
    /\ Len(RelaxedCandidates) = 3
    /\ Len(Matches) = 7
    /\ RelaxedFlagsOf(Matches) = <<FALSE, FALSE, FALSE, FALSE, TRUE, TRUE, TRUE>>

\* C20 as stated: with user filters active and at least 5 strict candidates
\* the output consists of strict candidates only (up to 10), every entry is
\* flagged relaxed = false, and no relaxed candidate is added even when fewer
\* than 10 strict candidates exist
C20_AsStated ==
    (MatchDone /\ FiltersActive /\ Len(StrictCandidates) >= 5) =>
        /\ JobIdsOf(Matches)
              = SubSeq(StrictCandidates, 1, Min(10, Len(StrictCandidates)))
        /\ \A i \in DOMAIN Matches : ~Matches[i].relaxed_criteria.b

\* what holds at or above the threshold: the strict candidates (up to 10)
\* come first, flagged relaxed = false, and relaxed candidates fill the
\* output up to 10 entries
C20_BackfillAboveThreshold ==
    (MatchDone /\ FiltersActive /\ Len(StrictCandidates) >= 5) =>
        LET S == Min(10, Len(StrictCandidates))
            added == Min(10 - S, Len(RelaxedCandidates))
        IN /\ JobIdsOf(Matches)
                 = SubSeq(StrictCandidates, 1, S) \o SubSeq(RelaxedCandidates, 1, added)
           /\ RelaxedFlagsOf(Matches) = [i \in 1..(S + added) |-> i > S]

\* 7 strict candidates and 20 relaxed ones: 3 relaxed entries are returned
C20_BackfillReached ==
    /\ MatchDone /\ FiltersActive
    /\ Len(StrictCandidates) = 7
    /\ Len(RelaxedCandidates) = 20
    /\ Len(Matches) = 10
    /\ Matches[8].relaxed_criteria.b

\* the chunks returned for the job jid
ChunksOf(jid) == {i \in DOMAIN call.chunk_rows : call.chunk_rows[i].job_id = jid}

\* the maximum similarity over the chunks of jid, in units of 0.00001
MaxChunkSimilarity(jid) ==
    LET sims == {call.chunk_rows[i].similarity : i \in ChunksOf(jid)}
    IN CHOOSE s \in sims : \A x \in sims : x <= s

DistinctJobs ==
    \A i, j \in DOMAIN Matches : i # j => Matches[i].job_id # Matches[j].job_id

\* C21 as stated: each job identifier appears at most once in the output
\* and the similarity attached to it is the maximum similarity over all
\* chunks returned for it
C21_AsStated ==
    MatchDone =>
        /\ DistinctJobs
        /\ \A i \in DOMAIN Matches :
              /\ ChunksOf(Matches[i].job_id) # {}
              /\ Matches[i].similarity * 10 = MaxChunkSimilarity(Matches[i].job_id)

\* C21, amended: each job identifier appears at most once in the output and
\* the similarity attached to it is the maximum similarity over all chunks
\* returned for it, rounded to four decimal places
C21_MatchDeduplication ==
    MatchDone =>
        /\ DistinctJobs
        /\ \A i \in DOMAIN Matches :
              /\ ChunksOf(Matches[i].job_id) # {}
              /\ LET off == Matches[i].similarity * 10
                               - MaxChunkSimilarity(Matches[i].job_id)
                 IN off <= 5 /\ off >= 0 - 5

\* the first job has a chunk of similarity 0.89872 and one of 0.10002, the
\* weaker one returned first, and is in the output with 0.8987
C21_Witness ==
    /\ MatchDone
    /\ Cardinality(ChunksOf(JobId(1))) = 2
    /\ call.chunk_rows[1] = [job_id |-> JobId(1), similarity |-> 10002]
    /\ \E i \in DOMAIN Matches :
          /\ Matches[i].job_id = JobId(1)
          /\ Matches[i].similarity = 8987

(***************************************************************************)
(* Properties of _paginated_fetch (SpecFetch)                              *)
(***************************************************************************)
RECURSIVE RowsHeld(_)
RowsHeld(pages) ==
    IF pages = << >> THEN 0 ELSE Head(pages).count + RowsHeld(Tail(pages))

\* the pages hold the rows 1 .. n, each once, in order
HoldsRowsUpTo(pages, n) ==
    /\ RowsHeld(pages) = n
    /\ \A i \in DOMAIN pages :
          pages[i].first = 1 + RowsHeld(SubSeq(pages, 1, i - 1))

\* C22: rows are requested in pages of 1000 at offsets 0, 1000, 2000, ...;
\* no request follows a page that is empty or shorter than 1000 rows, nor
\* the 15th request; at most 15000 rows are returned, and every matching
\* row when the upstream holds fewer than 15000
C22_PaginatedFetch ==
    call.fn = "_paginated_fetch" =>
        /\ \A i \in DOMAIN call.requests :
              /\ call.requests[i].limit = 1000
              /\ call.requests[i].offset = 1000 * (i - 1)
              /\ i < Len(call.requests) => call.requests[i].returned = 1000
        /\ Len(call.requests) <= 15
        /\ call.status = "loop" =>
              /\ Len(call.requests) < 15 \/ ~ENABLED FetchPage
              /\ \A i \in DOMAIN call.requests : call.requests[i].returned = 1000
        /\ RowsHeld(call.all_rows) <= 15000
        /\ call.status = "returned" =>
              /\ \/ call.requests[Len(call.requests)].returned < 1000
                 \/ Len(call.requests) = 15
              /\ call.total < 15000 => HoldsRowsUpTo(call.all_rows, call.total)
              /\ HoldsRowsUpTo(call.all_rows, Min(call.total, 15000))

\* 40000 matching rows: 15 requests, the last at offset 14000, 15000 rows
C22_Witness ==
    /\ call.fn = "_paginated_fetch"
    /\ call.status = "returned"
    /\ call.total = 40000
    /\ Len(call.requests) = 15
    /\ call.requests[15].offset = 14000
    /\ RowsHeld(call.all_rows) = 15000

\* 2000 matching rows: two full pages and an empty third one
C22_WitnessEmptyPage ==
    /\ call.fn = "_paginated_fetch"
    /\ call.status = "returned"
    /\ call.total = 2000
    /\ Len(call.requests) = 3
    /\ call.requests[3].returned = 0
    /\ HoldsRowsUpTo(call.all_rows, 2000)

\* 14999 matching rows: the 15th page is short and all rows are returned
C22_WitnessShortPage ==
    /\ call.fn = "_paginated_fetch"
    /\ call.status = "returned"
    /\ call.total = 14999
    /\ Len(call.requests) = 15
    /\ call.requests[15].returned = 999
    /\ HoldsRowsUpTo(call.all_rows, 14999)

(***************************************************************************)
(* Properties of the expansion of a pending follow-up (SpecFollowup)       *)
(***************************************************************************)
FollowupDone == call.fn = "_build_followup_args" /\ call.out # None
PriorArgs == call.heap[call.tool_args]
ExecArgs == call.out.heap[call.out.ref]

\* the filters of a data-store query: all of it but the projection, the
\* order and the page
QueryFilters(q) ==
    [k \in DOMAIN q \ {"select", "order", "limit", "offset"} |-> q[k]]

\* the columns _apply_common_filters constrains
COMMON_FILTER_COLUMNS ==
    {"has_url_duplicate", "country", "is_remote", "is_research",
     "job_type_filled", "and", "posted_date"}

ListingExpanded ==
    /\ FollowupDone
    /\ call.tool_name = Str("search_jobs")
    /\ SearchJobsInput(PriorArgs)

\* C23 as stated: a pending follow-up whose prior tool is search_jobs is
\* expanded to job_stats with metric = count and group_by = job_function_std,
\* and it carries over every filter of the prior listing call, so that the
\* breakdown is computed over the row set the listing was drawn from
C23_AsStated ==
    ListingExpanded =>
        /\ call.out.name = Str("job_stats")
        /\ ExecArgs["metric"] = Str("count")
        /\ ExecArgs["group_by"] = Str("job_function_std")
        /\ ~call.out.outcome.raised
        /\ QueryFilters(call.out.outcome.requests[1])
              = QueryFilters(SearchJobsQuery(PriorArgs))

\* what holds: the derived call is job_stats by job_function_std and its
\* query carries the prior query's filters on the common columns only
C23_CommonFiltersCarried ==
    ListingExpanded =>
        /\ call.out.name = Str("job_stats")
        /\ ExecArgs["metric"] = Str("count")
        /\ ExecArgs["group_by"] = Str("job_function_std")
        /\ ~call.out.outcome.raised
        /\ QueryFilters(call.out.outcome.requests[1])
              = [k \in DOMAIN QueryFilters(SearchJobsQuery(PriorArgs))
                          \cap COMMON_FILTER_COLUMNS
                   |-> SearchJobsQuery(PriorArgs)[k]]

\* a listing filtered by role keyword is expanded to a breakdown whose query
\* has no filter on the role
C23_FilterDropped ==
    /\ ListingExpanded
    /\ "role_keyword" \in DOMAIN PriorArgs
    /\ "actual_role" \in DOMAIN SearchJobsQuery(PriorArgs)
    /\ "actual_role" \notin DOMAIN call.out.outcome.requests[1]

\* C24: a pending follow-up whose prior tool is neither job_stats nor
\* search_jobs is expanded to a call with the same tool name and arguments
\* equal to the prior call's, and the stored prior arguments are not mutated
C24_FallbackExpansion ==
    (FollowupDone /\ call.tool_name \notin {Str("job_stats"), Str("search_jobs")}) =>
        /\ call.out.name = call.tool_name
        /\ ExecArgs = PriorArgs
        /\ call.out.heap[call.tool_args] = PriorArgs
        /\ call.out.outcome # None =>
              call.out.outcome = RunExecutor(call.tool_name, PriorArgs, "ok")

\* semantic_search_jobs with top_k and country: the executed arguments are a
\* copy, a dict of their own, and the search ran with top_k 3
C24_Witness ==
    /\ FollowupDone
    /\ call.tool_name = Str("semantic_search_jobs")
    /\ DOMAIN PriorArgs = {"query_text", "top_k", "country"}
    /\ call.out.name = Str("semantic_search_jobs")
    /\ call.out.ref # call.tool_args
    /\ ExecArgs = PriorArgs
    /\ ~call.out.outcome.raised
    /\ call.out.outcome.requests[1].match_count = Num(9)

\* the request confirmed the pending follow-up with an affirmative prompt
AffirmsPending ==
    /\ pc \notin {"idle", "resolve"}
    /\ Truthy(StartPending)
    /\ ~_is_negative_followup(prompt)
    /\ _is_affirmative_followup(prompt)

\* the expansion succeeded: the derived tool was executed without an error
\* and the summarizing completion-service call returned
ExpansionSucceeded ==
    /\ AffirmsPending
    /\ pc = "done"
    /\ response.status = 200
    /\ Executes # << >>
    /\ ~Executes[1].raised

\* C25: a successful affirmative expansion performs, in this order: the
\* pending follow-up is cleared, exactly one tool call is executed, the last
\* tool of the conversation is set to that call, exactly one
\* completion-service call is made, with an empty tool catalogue, and a new
\* pending follow-up referencing the executed call is armed; the response
\* lists exactly that one tool call.
C25_ExpansionOrder ==
    ExpansionSucceeded =>
        /\ Len(trace) = 5
        /\ trace[1] = EvClearPending
        /\ trace[2].ev = "execute"
        /\ ~trace[2].raised
        /\ <<trace[2].name, trace[2].input>> =
              _build_followup_args(StartPending.tool_name, StartPending.tool_args)
        /\ trace[3] = EvSetLastTool(trace[2].name, trace[2].input)
        /\ trace[4] = EvInvoke("none", 1, FALSE)
        /\ trace[5] = EvSetPending(PendingFollowup(trace[2].name, trace[2].input))
        /\ response.tool_calls = List(<<Listed(trace[2].name, trace[2].input)>>)
        /\ NowLastTool = <<trace[2].name, trace[2].input>>
        /\ NowPending = PendingFollowup(trace[2].name, trace[2].input)

\* "Yes." after a semantic search: the search was run again and summarized,
\* and it is the pending follow-up and the last tool afterwards
C25_Witness ==
    /\ ExpansionSucceeded
    /\ prompt = P_YES
    /\ StartPending.tool_name = Str("semantic_search_jobs")
    /\ Len(Executes) = 1
    /\ Len(Invokes) = 1
    /\ Invokes[1].tools = "none"
    /\ response.tool_calls =
          List(<<Listed(Str("semantic_search_jobs"), Executes[1].input)>>)
    /\ NowLastTool = <<Str("semantic_search_jobs"), Executes[1].input>>
    /\ NowPending = PendingFollowup(Str("semantic_search_jobs"), Executes[1].input)

\* the call the pending follow-up of the request expands to
DerivedCall == _build_followup_args(StartPending.tool_name, StartPending.tool_args)

\* the expansion failed: the derived tool is not in the registry, or its
\* executor raised
ExpansionFailed ==
    /\ AffirmsPending
    /\ \/ DerivedCall[1] \notin TOOL_EXECUTORS
       \/ Executes # << >> /\ Executes[1].raised

\* the answer of a failed expansion: the text of the error
ExpansionErrorText ==
    IF DerivedCall[1] \notin TOOL_EXECUTORS
    THEN <<"Unknown tool: ", DerivedCall[1].s>>
    ELSE <<"Tool execution failed: ">> \o Executes[1].exc

\* C26: when the tool derived from the pending follow-up is not in the
\* registry or its executor raises, the request returns an answer carrying
\* the error text, with status 200 and without any completion-service call;
\* afterwards the pending follow-up is cleared and not armed again and the
\* last tool of the conversation is as it was, so that the direct expansion
\* is not open to the next request.
C26_FailedExpansion ==
    /\ ExpansionFailed =>
          /\ pc = "done"
          /\ response.status = 200
          /\ response.answer = ExpansionErrorText
          /\ Invokes = << >>
          /\ EventsOf(trace, "set_pending_followup") = << >>
          /\ LastToolWrites = << >>
          /\ NowPending = None
          /\ NowLastTool = StartLastTool
          /\ \A p \in Prompts :
                ~(Truthy(get_pending_followup(_MEMORY, conversation_id))
                  /\ _is_affirmative_followup(p))
    /\ (pc = "resolve" /\ ~Truthy(get_pending_followup(_MEMORY, conversation_id))) =>
          ~ENABLED (\E upstream \in Upstream : FollowupExecute(upstream))

\* "Yes." on a pending count query: the listing met an upstream error, the
\* answer carries it, and the count query is still the last tool
C26_Witness ==
    /\ ExpansionFailed
    /\ prompt = P_YES
    /\ StartPending.tool_name = Str("job_stats")
    /\ Executes[1].name = Str("search_jobs")
    /\ Executes[1].raised
    /\ response.answer = <<"Tool execution failed: ">> \o UPSTREAM_ERROR
    /\ NowPending = None
    /\ NowLastTool = <<Str("job_stats"), StartPending.tool_args>>

\* "Yes." on a pending follow-up that names a tool outside the registry
C26_WitnessUnknownTool ==
    /\ ExpansionFailed
    /\ prompt = P_YES
    /\ StartPending.tool_name = UNKNOWN_TOOL
    /\ response.answer = <<"Unknown tool: ", UNKNOWN_TOOL.s>>
    /\ trace = <<EvClearPending>>
    /\ NowPending = None
    /\ NowLastTool[1] = Str("search_jobs")

\* the i-th call of the trace stores, as last tool, the call whose execution
\* is the event before it
StoresExecuted(i) ==
    /\ i > 1
    /\ trace[i - 1].ev = "execute"
    /\ trace[i - 1].name = trace[i].name
    /\ trace[i - 1].input = trace[i].args

\* C27 as stated: the last tool of the conversation is only ever updated with
\* a tool call whose execution succeeded; a call to an unknown tool or a call
\* whose executor raised never becomes the stored last tool.
C27_AsStated ==
    \A i \in DOMAIN trace :
        trace[i].ev = "set_last_tool" =>
            /\ trace[i].name \in TOOL_EXECUTORS
            /\ StoresExecuted(i)
            /\ ~trace[i - 1].raised

\* the part of C27 that the code keeps: the stored last tool is always a call
\* that a registered executor was run with, never a call to an unknown tool
C27_OnlyExecutedCallsStored ==
    /\ \A i \in DOMAIN trace :
          trace[i].ev = "set_last_tool" =>
              trace[i].name \in TOOL_EXECUTORS /\ StoresExecuted(i)
    /\ NowLastTool[1] # None => NowLastTool[1] \in TOOL_EXECUTORS

\* a request whose only tool call raised, and that call is the last tool of
\* the conversation afterwards
C27_RaisedCallStored ==
    /\ pc = "done"
    /\ NormalFlow
    /\ Len(Executes) = 1
    /\ Executes[1].raised
    /\ NowLastTool = <<Executes[1].name, Executes[1].input>>
    /\ NowLastTool # StartLastTool

\* C28 as stated: between requests, if a pending follow-up is set then the
\* last tool of the conversation is set too, the pending follow-up's
\* tool_name and tool_args equal the last tool's name and args, and the
\* pending follow-up names a tool of the registry.
C28_AsStated ==
    (pc \in {"idle", "done"} /\ Truthy(NowPending)) =>
        /\ NowLastTool[1] # None
        /\ NowPending.tool_name = NowLastTool[1]
        /\ NowPending.tool_args = NowLastTool[2]
        /\ NowPending.tool_name \in TOOL_EXECUTORS

\* a request answered with status 200 after which the pending follow-up names
\* a tool outside the registry while the last tool is the executed listing
C28_PendingUnknownTool ==
    /\ pc = "done"
    /\ response.status = 200
    /\ Truthy(NowPending)
    /\ NowPending.tool_name = UNKNOWN_TOOL
    /\ NowLastTool[1] = Str("search_jobs")

\* a request that executed a tool and then failed on the completion service:
\* the last tool is the new call, the pending follow-up is still the old one
C28_PendingStale ==
    /\ pc = "done"
    /\ response.status = 500
    /\ Truthy(NowPending)
    /\ NowPending = StartPending
    /\ NowPending.tool_name \in TOOL_EXECUTORS
    /\ NowLastTool[1] \in TOOL_EXECUTORS
    /\ NowLastTool[1] # NowPending.tool_name

\* the input of an invocation after the guardrail
Reconciled(tc) == _enforce_prompt_filters(tc.name, tc.input, prompt)

\* the pending follow-ups armed by the request, in order
PendingWrites == EventsOf(trace, "set_pending_followup")

\* C29: for every tool invocation processed in the round loop, the input
\* passed to the executor, the input recorded in the response's tool_calls,
\* the input stored as the last tool of the conversation and the input stored
\* in the pending follow-up are all the input after the guardrail, never the
\* input the model proposed when the two differ.
C29_ReconciledInput ==
    NormalFlow =>
        \A inv \in {InvocationsOf(messages)} :
            /\ collected_tool_calls =
                  [i \in DOMAIN inv |-> Listed(inv[i].name, Reconciled(inv[i]))]
            /\ \A known \in {SelectSeq(collected_tool_calls,
                                        LAMBDA c : c.name \in TOOL_EXECUTORS)} :
                  /\ [i \in DOMAIN Executes |->
                        Listed(Executes[i].name, Executes[i].input)] = known
                  /\ LastToolWrites =
                        [i \in DOMAIN known |->
                            EvSetLastTool(known[i].name, known[i].input)]
                  /\ known # << >> =>
                        NowLastTool = <<known[Len(known)].name, known[Len(known)].input>>
            /\ (pc = "done" /\ response.status = 200 /\ inv # << >>) =>
                  /\ response.tool_calls = List(collected_tool_calls)
                  /\ PendingWrites =
                        << EvSetPending(PendingFollowup(inv[Len(inv)].name,
                                                        Reconciled(inv[Len(inv)]))) >>
                  /\ NowPending.tool_args = Reconciled(inv[Len(inv)])

\* "how many non-research jobs" answered after a count query proposed without
\* the research filter: the executor, tool_calls, the last tool and the pending
\* follow-up all carry is_research = False
C29_Witness ==
    /\ pc = "done"
    /\ NormalFlow
    /\ response.status = 200
    /\ prompt = P_COUNT
    /\ Len(InvocationsOf(messages)) = 1
    /\ InvocationsOf(messages)[1].input = STATS_ARGS
    /\ Reconciled(InvocationsOf(messages)[1]) # STATS_ARGS
    /\ Get(Executes[1].input, "is_research") = Bool(FALSE)
    /\ response.tool_calls.l[1].input = Executes[1].input
    /\ NowLastTool[2] = Executes[1].input
    /\ NowPending.tool_args = Executes[1].input

\* the nudges appended while serving the request
NudgeCount == Cardinality({i \in DOMAIN messages : messages[i].kind = "nudge"})

\* no tool invocation was processed before messages[j] was appended
NoToolBefore(j) == \A i \in 1..(j - 1) : messages[i].kind # "tool_results"

\* C30: the nudge is appended only while no tool invocation has been processed
\* in the request, at most 2 times; after the first tool invocation a reply
\* without a tool invocation ends the request at once with the model's text;
\* each nudge uses up one of the 5 rounds, so a request with k nudges processes
\* tool invocations in at most 5 - k rounds, and the rounds can only run out on
\* a reply that carries a tool invocation.
C30_NudgesShareRounds ==
    NormalFlow =>
        /\ NudgeCount = no_tool_retry_count
        /\ NudgeCount <= 2
        /\ \A j \in DOMAIN messages :
              messages[j].kind = "nudge" => NoToolBefore(j)
        /\ \A j \in DOMAIN messages :
              (messages[j].kind = "assistant"
               /\ SelectSeq(messages[j].content, IsToolUse) = << >>) =>
                  /\ NoToolBefore(j)
                  /\ j < Len(messages)
                  /\ messages[j + 1].kind = "nudge"
        /\ (ToolRoundCount(messages) >= 1 /\ pc = "loop") =>
              /\ ~ENABLED (\E content \in TextReplies : SoftEnforce(content))
              /\ ~ENABLED (\E content \in TextReplies : Refuse(content))
              /\ round < MAX_TOOL_ROUNDS =>
                    \A content \in TextReplies : ENABLED Answer(content)
        /\ (/\ ToolRoundCount(messages) >= 1
            /\ pc = "done"
            /\ response.status = 200
            /\ ~has_tool_use(raw)) =>
              /\ response.answer = extract_text(raw)
              /\ Len(Invokes) = NudgeCount + ToolRoundCount(messages) + 1
        /\ pc \in {"loop", "done"} => round = NudgeCount + ToolRoundCount(messages)
        /\ ToolRoundCount(messages) <= MAX_TOOL_ROUNDS - NudgeCount
        /\ (pc = "loop" /\ round = MAX_TOOL_ROUNDS) =>
              /\ has_tool_use(raw)
              /\ extract_tool_calls(raw) # << >>
              /\ messages[Len(messages)].kind = "tool_results"
              /\ ENABLED Exhausted

\* a request nudged twice that then ran three tool rounds and used up its
\* five rounds
C30_Witness ==
    /\ pc = "done"
    /\ NormalFlow
    /\ NudgeCount = 2
    /\ ToolRoundCount(messages) = 3
    /\ round = MAX_TOOL_ROUNDS
    /\ has_tool_use(raw)
    /\ response.status = 200
    /\ response.tool_calls # None

\* a request nudged once whose reply after the first tool round was a text:
\* the request ended with that text
C30_WitnessTextAfterTool ==
    /\ pc = "done"
    /\ NormalFlow
    /\ NudgeCount = 1
    /\ ToolRoundCount(messages) = 1
    /\ ~has_tool_use(raw)
    /\ response.answer = extract_text(raw)
    /\ Len(Invokes) = 3

\* the prompt is classified database-related: by keyword, or as a prompt of at
\* most 6 tokens in a conversation with a known last tool
ClassifiedDatabaseRelated ==
    \/ _is_database_related(prompt)
    \/ StartLastTool[1] # None /\ WordCount(prompt) <= 6

\* C31: for a prompt classified database-related, a normal-flow response
\* carries the model's text as the answer only if at least one tool invocation
\* was processed in the request; otherwise the answer is the fixed refusal
\* text.
C31_Grounding ==
    (pc = "done" /\ NormalFlow /\ response.status = 200
     /\ ClassifiedDatabaseRelated) =>
        /\ db_related_prompt
        /\ IF ToolRoundCount(messages) = 0
           THEN /\ response = AskResponse(REFUSAL_ANSWER, None)
                /\ Executes = << >>
           ELSE /\ has_called_tool
                /\ response.answer =
                      (IF has_tool_use(raw) /\ extract_text(raw) = << >>
                       THEN UNABLE_ANSWER ELSE extract_text(raw))

\* "hello" sent after a request that called a tool: the prompt has no keyword,
\* is database-related by inheritance, and is refused when no tool is called
C31_Witness ==
    /\ pc = "done"
    /\ NormalFlow
    /\ prompt = P_HELLO
    /\ ~_is_database_related(prompt)
    /\ StartLastTool[1] # None
    /\ ToolRoundCount(messages) = 0
    /\ response.answer = REFUSAL_ANSWER

\* "how many non-research jobs" answered with the model's text after a tool
\* round
C31_WitnessGrounded ==
    /\ pc = "done"
    /\ NormalFlow
    /\ prompt = P_COUNT
    /\ _is_database_related(prompt)
    /\ ToolRoundCount(messages) = 1
    /\ response.answer = <<"Here is the answer.">>

\* messages[1..n] alternates user and assistant, from a user message to a user
\* message
Alternates(n) ==
    /\ n % 2 = 1
    /\ n <= Len(messages)
    /\ \A m \in 1..n :
          messages[m].role = (IF m % 2 = 1 THEN "user" ELSE "assistant")

\* C32: in every round with tool invocations the message list gains the
\* assistant message with the content of the reply, followed by one user
\* message holding exactly one tool_result per invocation of that reply, each
\* with the id of its invocation, in the order of the invocations; so the
\* message list passed to every completion-service call alternates user and
\* assistant roles and begins and ends with a user message.
C32_ToolResultPairing ==
    /\ NormalFlow =>
          /\ \A m \in DOMAIN messages :
                messages[m].kind = "tool_results" =>
                    /\ m > 1
                    /\ messages[m].role = "user"
                    /\ messages[m - 1].kind = "assistant"
                    /\ AnswersEachInvocation(m)
          /\ \A m \in DOMAIN messages :
                (messages[m].kind = "assistant"
                 /\ SelectSeq(messages[m].content, IsToolUse) # << >>) =>
                    /\ m < Len(messages)
                    /\ messages[m + 1].kind = "tool_results"
          /\ (pc = "loop" /\ has_tool_use(raw)) =>
                /\ messages[Len(messages) - 1].content = raw.content
                /\ messages[Len(messages)].kind = "tool_results"
          /\ pc = "loop" => Alternates(Len(messages))
    /\ \A k \in DOMAIN Invokes : Alternates(Invokes[k].nmsgs)

\* a reply with three invocations, one of an unknown tool and one that raised,
\* answered by three tool_results, and a completion-service call that carried
\* the three messages
C32_Witness ==
    /\ NormalFlow
    /\ Len(messages) >= 3
    /\ messages[3].kind = "tool_results"
    /\ Len(messages[3].content) = 3
    /\ \A j \in 1..3 : messages[3].content[j].tool_use_id = <<1, j>>
    /\ Len(Invokes) >= 2
    /\ Invokes[2].nmsgs = 3

\* the request takes the normal flow and has processed no tool invocation
ToolLessTurn == NormalFlow /\ ToolRoundCount(messages) = 0

\* C33: a normal-flow request in which no tool invocation is processed leaves
\* the last tool of the conversation and its pending follow-up as they were;
\* so a pending follow-up armed by an earlier turn is still there after such
\* turns, and an affirmative prompt on it is expanded.
C33_ToolLessFrame ==
    /\ ToolLessTurn =>
          /\ NowLastTool = StartLastTool
          /\ NowPending = StartPending
          /\ _MEMORY = memory_at_start
          /\ EventsOf(trace, "set_pending_followup") = << >>
          /\ EventsOf(trace, "clear_pending_followup") = << >>
          /\ LastToolWrites = << >>
    /\ pc = "resolve" => pending = get_pending_followup(_MEMORY, conversation_id)
    /\ (pc = "resolve" /\ Truthy(pending) /\ ~_is_negative_followup(prompt)
        /\ _is_affirmative_followup(prompt)) =>
          /\ ENABLED FollowupExecute("ok")
          /\ ~ENABLED BeginNormal

\* "hello" sent while a count query is the pending follow-up: the request is
\* refused without a tool call and the pending follow-up is still the count
\* query
C33_Witness ==
    /\ pc = "done"
    /\ ToolLessTurn
    /\ prompt = P_HELLO
    /\ response.answer = REFUSAL_ANSWER
    /\ Truthy(StartPending)
    /\ NowPending = PendingFollowup(Str("job_stats"), STATS_ARGS)
    /\ NowLastTool = <<Str("job_stats"), STATS_ARGS>>

\* a prompt of seven words answered directly while a follow-up is pending
C33_WitnessTextAnswer ==
    /\ pc = "done"
    /\ ToolLessTurn
    /\ prompt = P_LONG
    /\ response.answer = <<"Here is the answer.">>
    /\ Truthy(StartPending)
    /\ NowPending = StartPending

\* the request was resolved by the short-circuit on the pending follow-up: the
\* canned decline or the direct expansion
ShortCircuited == pc \in {"summarize", "done"} /\ ~NormalFlow

\* the prompt is a phrase of the affirmative or of the negative set
YesOrNo == _is_affirmative_followup(prompt) \/ _is_negative_followup(prompt)

\* C34 as stated: without a pending follow-up an affirmative or negative
\* prompt never triggers the direct expansion or the canned decline, it goes
\* through the round loop with at least one completion-service call; and the
\* short-circuit becomes possible again only after a request executed a tool
\* and armed the pending follow-up.
C34_AsStated ==
    /\ (pc \in {"loop", "summarize", "done"} /\ ~Truthy(StartPending) /\ YesOrNo) =>
          /\ NormalFlow
          /\ pc = "done" => Invokes # << >>
    /\ ShortCircuited =>
          /\ Truthy(StartPending)
          /\ StartLastTool[1] # None

\* the part of C34 that the code keeps: without a pending follow-up a yes or
\* no prompt takes the round loop, with at least one completion-service call
\* with the tool catalogue, no decline and no direct expansion; and a pending
\* follow-up is only armed by a request that processed a tool invocation or
\* expanded a pending follow-up
C34_ShortCircuitNeedsPending ==
    /\ (pc \in {"loop", "summarize", "done"} /\ ~Truthy(StartPending) /\ YesOrNo) =>
          /\ NormalFlow
          /\ EventsOf(trace, "clear_pending_followup") = << >>
          /\ response # None => response.answer # DECLINE_ANSWER
          /\ pc = "done" =>
                /\ Invokes # << >>
                /\ Invokes[1].tools = "TOOL_DEFINITIONS"
    /\ ShortCircuited => Truthy(StartPending)
    /\ (~Truthy(StartPending) /\ Truthy(NowPending)) =>
          /\ NormalFlow
          /\ ToolRoundCount(messages) >= 1
          /\ pc = "done"

\* "Yes." sent to a conversation without a pending follow-up and answered
\* through the round loop
C34_YesWithoutPending ==
    /\ pc = "done"
    /\ prompt = P_YES
    /\ ~Truthy(StartPending)
    /\ NormalFlow
    /\ Len(Invokes) >= 1
    /\ response.status = 200

\* "No!" declined although no tool was ever executed in the conversation: the
\* pending follow-up named a tool outside the registry
C34_DeclineWithoutExecution ==
    /\ pc = "done"
    /\ prompt = P_NO
    /\ response.answer = DECLINE_ANSWER
    /\ StartPending.tool_name = UNKNOWN_TOOL
    /\ StartLastTool[1] = None

\* the call a pending follow-up for the call c expands to
Derived(c) ==
    [name |-> _build_followup_args(c.name, c.args)[1],
     args |-> _build_followup_args(c.name, c.args)[2]]

\* the tool calls the two requests can store: those of the round loops and
\* the expansions of pending follow-ups
StorableCalls ==
    LET base == {CALL_STATS, CALL_SEARCH, CALL_SEMANTIC}
        once == base \cup {Derived(c) : c \in base}
    IN once \cup {Derived(c) : c \in once}

\* name and args are those of one tool call, or both unset
WholeRecord(name, args) ==
    \/ name = None /\ args = None
    \/ \E c \in StorableCalls : name = c.name /\ args = c.args

\* C35: with two requests in flight on one conversation key, the stored
\* last_tool_name and last_tool_args come from the same tool call: no request
\* reads the name written by one set_last_tool call together with the
\* arguments written by another, and between requests the stored pair is the
\* pair of the last set_last_tool call.
C35_NoTornLastTool ==
    call.fn = "tasks" =>
        /\ \A t \in 1..2 :
              call.task[t].read # None =>
                  /\ call.task[t].read.name_by = call.task[t].read.args_by
                  /\ WholeRecord(call.task[t].read.name, call.task[t].read.args)
        /\ call.running = 0 =>
              /\ call.name_by = call.args_by
              /\ WholeRecord(get_last_tool(call.memory, "A")[1],
                             get_last_tool(call.memory, "A")[2])

\* the second request read the last tool while the first, which replaced the
\* stored semantic search by a count query, was in flight with it: it read the
\* count query, name and arguments
C35_Witness ==
    /\ call.fn = "tasks"
    /\ call.task[1].plan = <<CALL_STATS>>
    /\ call.task[1].writes = 1
    /\ call.task[2].read # None
    /\ call.task[2].read.name_by = <<1, 1>>
    /\ call.task[2].read.name = CALL_STATS.name
    /\ call.task[2].read.args = CALL_STATS.args
    /\ call.task[2].plan = <<CALL_SEARCH, CALL_SEMANTIC>>
    /\ call.task[2].pc = "done"
    /\ get_last_tool(call.memory, "A") = <<CALL_SEMANTIC.name, CALL_SEMANTIC.args>>

\* request t was resolved by the short-circuit: it declined or expanded the
\* pending follow-up it read
Resolves(t) == call.task[t].flow \in {"decline", "expand"}

\* the two requests carry affirmative or negative prompts and a pending
\* follow-up was set when they arrived
TwoConfirmations ==
    /\ call.fn = "tasks"
    /\ \A t \in 1..2 : call.task[t].prompt \in {P_YES, P_NO}
    /\ \E t \in 1..2 : call.task[t].resolved = Before

C36_WitnessDeclined ==
    /\ TwoConfirmations
    /\ call.task[1].prompt = P_NO
    /\ call.task[2].prompt = P_YES
    /\ call.task[1].flow = "decline"
    /\ call.task[2].flow = "normal"
    /\ call.task[2].pc = "done"
    /\ call.task[2].executed = << >>

\* the jobs of the ranking posted before the cutoff
OldCandidates == JobsOfKind("old")

\* C37: the 30-day recency filter is applied before the strict/relaxed split:
\* no entry of the output, flagged relaxed or not, has a posted date older
\* than the cutoff, even when that leaves fewer than 10 entries
C37_RecencyBeforeRelaxation ==
    MatchDone =>
        /\ \A i \in DOMAIN Matches :
              \/ Matches[i].posted_date = None
              \/ Matches[i].posted_date.n >= Today - RECENCY_DAYS
        /\ \A i \in DOMAIN Matches, j \in DOMAIN OldCandidates :
              Matches[i].job_id # OldCandidates[j]

\* two jobs older than the cutoff lead the ranking and pass the filters; with
\* 4 strict and 3 relaxed recent jobs the output has 7 entries, some of them
\* relaxed, one posted on the cutoff day, and none of the old jobs
C37_Witness ==
    /\ MatchDone /\ FiltersActive
    /\ Len(OldCandidates) = 2
    /\ OldCandidates[1] = JobId(1)
    /\ Len(StrictCandidates) = 4
    /\ Len(RelaxedCandidates) = 3
    /\ Len(Matches) = 7
    /\ \E i \in DOMAIN Matches : Matches[i].relaxed_criteria.b
    /\ \E i \in DOMAIN Matches :
          Matches[i].posted_date = Num(Today - RECENCY_DAYS)

\* the job of an output entry fails at least one of the user filters
FailsFilters(m) == ~passes_filters(JobMeta(call.jobs_table, m.job_id), call.filters)

\* C38: the output has at most 10 entries with pairwise distinct job
\* identifiers; the entries flagged relaxed = false precede the entries
\* flagged relaxed = true; within each of the two groups the entries are in
\* non-increasing similarity order; an entry is flagged relaxed = true if and
\* only if user filters are active and its job fails at least one of them
C38_MatchOutputShape ==
    MatchDone =>
        /\ Len(Matches) <= 10
        /\ DistinctJobs
        /\ \A i, j \in DOMAIN Matches :
              (i < j /\ Matches[i].relaxed_criteria.b) => Matches[j].relaxed_criteria.b
        /\ \A i, j \in DOMAIN Matches :
              (i < j /\ Matches[i].relaxed_criteria = Matches[j].relaxed_criteria)
                  => Matches[i].similarity >= Matches[j].similarity
        /\ \A i \in DOMAIN Matches :
              Matches[i].relaxed_criteria.b
                  <=> (has_filters(call.filters) /\ FailsFilters(Matches[i]))

\* filters active, relaxed jobs ranked above the strict ones: the output has
\* 10 entries, the strict ones first although their similarity is lower
C38_Witness ==
    /\ MatchDone /\ has_filters(call.filters)
    /\ Len(Matches) = 10
    /\ ~Matches[4].relaxed_criteria.b
    /\ Matches[5].relaxed_criteria.b
    /\ Matches[4].similarity < Matches[5].similarity
    /\ FailsFilters(Matches[5])

\* no filters: ten entries, none flagged, jobs of both kinds among them
C38_WitnessNoFilters ==
    /\ MatchDone /\ ~has_filters(call.filters)
    /\ Len(Matches) = 10
    /\ \A i \in DOMAIN Matches : ~Matches[i].relaxed_criteria.b
    /\ \E i \in DOMAIN Matches : Matches[i].country = Str(C_FR)
    /\ \E i \in DOMAIN Matches : Matches[i].country = Str(C_DE)

\* the keys of the query that execute_job_stats sends to the data store
QueryKeys == DOMAIN JobStatsQuery(call.params)

\* the grouping dimension is a key of the query: a filter on it was added
DimensionInQuery == call.params["group_by"].s \in QueryKeys

TotalRow == << [value |-> Str("total"), count |-> Num(Len(call.rows))] >>

\* the value given for the filter on the grouping dimension
GivenDimensionFilter == Get(call.params, call.params["group_by"].s)

\* C39: job_stats returns the single 'total' row if and only if a filter on
\* the grouping dimension was added to the data-store query; a filter value
\* that is null, empty or whitespace-only neither constrains the query nor
\* triggers the collapse, and group_by = posted_month never collapses
C39_CollapseMatchesFilter ==
    StatsDone =>
        /\ (Buckets = TotalRow) <=> DimensionInQuery
        /\ (\/ GivenDimensionFilter = None
            \/ Strip(GivenDimensionFilter.s) = << >>)
              => (~DimensionInQuery /\ Buckets # TotalRow)
        /\ MonthlyMode => Buckets # TotalRow

\* group_by = country with a whitespace-only country on 37 rows of one
\* country: the query has no country filter and the result is the one group
C39_Witness ==
    /\ StatsDone
    /\ call.params["group_by"] = Str("country")
    /\ call.params["country"] = Str(C_BLANK)
    /\ "country" \notin QueryKeys
    /\ Len(call.rows) = 37
    /\ Buckets = << [value |-> Str(C_DE), count |-> Num(37)] >>

\* group_by = job_type_filled with that filter set: the filter is in the
\* query and the result is the total
C39_WitnessCollapsed ==
    /\ StatsDone
    /\ call.params["group_by"] = Str("job_type_filled")
    /\ "job_type_filled" \in QueryKeys
    /\ Len(call.rows) = 37
    /\ Buckets = TotalRow

\* group_by = posted_month with a country filter in the query: no collapse
C39_WitnessMonthly ==
    /\ StatsDone /\ MonthlyMode
    /\ "country" \in QueryKeys
    /\ Len(Buckets) = 2

\* the first 7 characters of v are of the form YYYY-MM
IsYearMonth(v) ==
    /\ v # None
    /\ Len(v.s) >= 7
    /\ \A k \in {1, 2, 3, 4, 6, 7} : v.s[k] \in DIGITS
    /\ v.s[5] = "-"

\* the rows counted in some bucket of the result
CountedInBucket(v) ==
    /\ v # None
    /\ Len(v.s) >= 7
    /\ \E i \in DOMAIN Buckets : Buckets[i].value.s = SubSeq(v.s, 1, 7)

\* every bucket has count >= 1, delta compares each bucket with the bucket
\* before it in the result, and percent_change is null for the first bucket
\* only
PresentBuckets ==
    \A i \in DOMAIN Buckets :
        /\ Buckets[i].count.n >= 1
        /\ (Buckets[i].percent_change = None) <=> (i = 1)
        /\ i > 1 => Buckets[i].delta_from_previous
                       = Num(Buckets[i].count.n - Buckets[i - 1].count.n)

\* C40 as stated: every bucket returned for group_by = posted_month has
\* count >= 1, delta compares each bucket with the previous present bucket,
\* percent_change is null only for the first bucket, and rows whose date is
\* missing or whose first 7 characters are not of the form YYYY-MM are
\* counted in no bucket
C40_AsStated ==
    (StatsDone /\ MonthlyMode) =>
        /\ PresentBuckets
        /\ \A k \in DOMAIN call.rows :
              ~IsYearMonth(call.rows[k]) => ~CountedInBucket(call.rows[k])

\* what the code keeps: the buckets are present ones, and the rows counted
\* in no bucket are those whose date is missing, shorter than 7 characters
\* or without "-" as its fifth character
C40_PresentBuckets ==
    (StatsDone /\ MonthlyMode) =>
        /\ PresentBuckets
        /\ \A k \in DOMAIN call.rows :
              CountedInBucket(call.rows[k]) <=> CarriesMonth(call.rows[k])

\* the row dated "2026-3-9" is counted in a bucket "2026-3-", which follows
\* "2026-01" and is compared with it
C40_LooseDateCounted ==
    /\ StatsDone /\ MonthlyMode
    /\ \E k \in DOMAIN call.rows : call.rows[k] = M_LOOSE
    /\ Len(Buckets) = 3
    /\ Buckets[3].value = Str(<<"2","0","2","6","-","3","-">>)
    /\ Buckets[3].count = Num(1)
    /\ Buckets[3].delta_from_previous = Num(0 - 3)

====
